---- MODULE Spec2Model ----
(***************************************************************************)
(* Asynchronous PDF rendering pipeline: the PDFJob collection, the         *)
(* QueueProcessor polling scheduler, the worker-thread render unit and the *)
(* server start-up that recovers interrupted jobs.                         *)
(*                                                                         *)
(* A job-store operation (findOne, save, find, updateMany) is one step: it *)
(* either takes effect and the awaiting code continues up to its next      *)
(* await, or it rejects without effect and the exception is routed to the  *)
(* enclosing catch.  Timestamps: createdAt is modelled, updatedAt is not.  *)
(***************************************************************************)
EXTENDS Integers, Sequences, FiniteSets, TLC

(* ------------------------------ bounds -------------------------------- *)

\* Number of accepted submissions in a run.
MaxJobs == 2
\* Number of job-store operations that reject in a run.
MaxStoreErrors == 1
\* Number of process exits followed by a new start in a run.
MaxRestarts == 1
\* Number of processNextJob invocations the model can hold past the guard.
MaxCalls == 2

(* ------------------------------ values -------------------------------- *)

\* JavaScript null (the schema default of filePath and errorMessage).
Null == "<null>"

\* JavaScript truthiness of a nullable string.
Truthy(x) == x # Null /\ x # ""

Statuses == {"pending", "processing", "completed", "failed"}

Calls == 1..MaxCalls

\* The message of the exception a rejected job-store operation raises.
StoreErrorMessage == "connection lost"

\* The value setInterval returns.
Timer == "timer"

(* ----------------------------- variables ------------------------------ *)

VARIABLES
  db,            \* the PDFJob collection: db[j] is the record of job id j
  clock,         \* the time of the latest insert (source of createdAt)
  proc,          \* position of the server start-up sequence
  isProcessing,  \* QueueProcessor.isProcessing
  intervalId,    \* QueueProcessor.intervalId
  timers,        \* the setInterval timers of the process that are not cleared
  call,          \* the processNextJob invocations past the guard
  escaped,       \* an exception left processNextJob (its promise rejected)
  storeErrors,   \* job-store operations rejected so far
  restarts,      \* process restarts so far
  lastCall,      \* observer: how the latest processNextJob call went
  lastStartedAt, \* observer: createdAt of the latest job this process started
  renders,       \* observer: renders[j] counts the renders started for job j
  input,         \* the argument of the current SpiralGenerator.generateSpiral call
  words,         \* spiral: the words not placed yet
  result,        \* spiral: the lines of the block
  direction,     \* spiral: the phase applied next (0 TOP, 1 RIGHT, 2 BOTTOM, 3 LEFT)
  layoutPc,      \* position of the generateSpiral call
  output,        \* the text returned by generateSpiral
  http,          \* the latest HTTP exchange: the request and the response sent
  peer,          \* a second QueueProcessor instance polling the same collection
  block,         \* align: the lines passed to and returned by SpiralGenerator.align
  aligns,        \* align: the directions of the calls made on block so far
  storage,       \* browser: the page's localStorage items JobId and JobTimestamp
  browserTime,   \* browser: Date.now(), counted in steps of 12 hours
  page,          \* browser: the PDF status section (job id, status badge, download link)
  monitors,      \* browser: the startJobMonitoring loops of the loaded page
  checked,       \* browser: the latest run of checkJobStatus and what it observed
  lastSubmitAt,  \* observer: browserTime of the latest submission of the page
  reloads,       \* observer: page loads after the first
  bracketInput,  \* normalizeBrackets: the argument
  bracketWord,   \* normalizeBrackets: the local word
  bracketPc,     \* normalizeBrackets: position of the call
  normalized,    \* normalizeBrackets: the value returned
  normalizer,    \* normalizers: the function applied, by name
  normArg,       \* normalizers: the argument of the latest application
  normResult,    \* normalizers: the value the latest application returned
  normCalls      \* normalizers: the applications made, each on the value before

\* The state of the job queue: the collection, the server process and the
\* QueueProcessor.
queueVars == <<db, clock, proc, isProcessing, intervalId, timers, call, escaped,
               storeErrors, restarts, lastCall, lastStartedAt, renders>>

\* The locals of one SpiralGenerator.generateSpiral call.
layoutVars == <<input, words, result, direction, layoutPc, output>>

\* The argument and the result of successive SpiralGenerator.align calls.
alignVars == <<block, aligns>>

\* The browser page of pdf-utils.js.
clientVars == <<storage, browserTime, page, monitors, checked, lastSubmitAt,
               reloads>>

\* One normalizeBrackets call of the brackets page.
bracketVars == <<bracketInput, bracketWord, bracketPc, normalized>>

\* A string normalizer applied to its own result.
normVars == <<normalizer, normArg, normResult, normCalls>>

\* The functions exercised on their own and the browser page.
sideVars == <<alignVars, clientVars, bracketVars, normVars>>

\* What a step of the job queue leaves alone.
nonQueueVars == <<layoutVars, http, peer, sideVars>>

\* What a step of a generateSpiral call leaves alone.
nonLayoutVars == <<queueVars, http, peer, sideVars>>

\* What a request leaves alone beside the job queue.
nonRouteVars == <<layoutVars, peer, sideVars>>

\* What an align call leaves alone.
nonAlignVars ==
  <<queueVars, layoutVars, http, peer, clientVars, bracketVars, normVars>>

\* What a step of the browser page leaves alone beside the job queue.
nonClientVars == <<layoutVars, http, peer, alignVars, bracketVars, normVars>>

\* What a normalizeBrackets call leaves alone.
nonBracketVars ==
  <<queueVars, layoutVars, http, peer, alignVars, clientVars, normVars>>

\* What the application of a normalizer leaves alone.
nonNormVars ==
  <<queueVars, layoutVars, http, peer, alignVars, clientVars, bracketVars>>

vars == <<queueVars, nonQueueVars>>

(* --------------------------- PDFJob (model) --------------------------- *)

\* pdfJobSchema: a new record (status and the two nullable defaults).
NewJob(content, now) ==
  [status |-> "pending", content |-> content, filePath |-> Null,
   errorMessage |-> Null, createdAt |-> now]

JobIds == 1..Len(db)

\* The in-memory mongoose document of record j, nothing modified yet.
LoadDoc(j) ==
  [jobId |-> j, status |-> db[j].status, content |-> db[j].content,
   filePath |-> db[j].filePath, errorMessage |-> db[j].errorMessage,
   modified |-> {}]

NoDoc ==
  [jobId |-> 0, status |-> Null, content |-> Null, filePath |-> Null,
   errorMessage |-> Null, modified |-> {}]

\* pdfJobSchema.methods.updateStatus, up to the save() it returns.
updateStatus(doc, newStatus, filePath, errorMessage) ==
  LET d1 == [doc EXCEPT !.status = newStatus, !.modified = @ \cup {"status"}]
      d2 == IF Truthy(filePath)
            THEN [d1 EXCEPT !.filePath = filePath,
                            !.modified = @ \cup {"filePath"}]
            ELSE d1
  IN  IF Truthy(errorMessage)
      THEN [d2 EXCEPT !.errorMessage = errorMessage,
                      !.modified = @ \cup {"errorMessage"}]
      ELSE d2

\* The record a successful save() of doc leaves: its modified paths written.
Saved(rec, doc) ==
  [rec EXCEPT
     !.status = IF "status" \in doc.modified THEN doc.status ELSE @,
     !.filePath = IF "filePath" \in doc.modified THEN doc.filePath ELSE @,
     !.errorMessage =
        IF "errorMessage" \in doc.modified THEN doc.errorMessage ELSE @]

\* Mutant: the query omits the status filter.
AnyStatusFilter(rec) == TRUE

\* Mutant: failed jobs are queried again (automatic retry).
PendingOrFailedFilter(rec) == rec.status \in {"pending", "failed"}

\* A faulty filter: records in processing are picked up as well.
PendingOrProcessingFilter(rec) == rec.status \in {"pending", "processing"}

\* The filter { status: 'pending' } of the scheduler's findOne.
PendingFilter(rec) == rec.status = "pending"

\* Mutant: the sort is missing.
Unsorted(S) == S

\* .sort({ createdAt: 1 }) followed by taking one: the candidates findOne may
\* return (records with equal createdAt come in an unspecified order).
OldestFirst(S) == {j \in S : \A k \in S : db[j].createdAt <= db[k].createdAt}

\* A faulty recovery filter: no record.
NoRecordFilter(rec) == FALSE

\* A faulty recovery filter: every record that is not pending.
NotPendingFilter(rec) == rec.status # "pending"

\* The filter { status: 'processing' } of the recovery routine.
ProcessingFilter(rec) == rec.status = "processing"

(* ------------------------ render unit (model) ------------------------- *)

\* generatePDFAsync: the file name derived from the job id.
Filename(jobId) == "pdf_" \o ToString(jobId) \o ".pdf"

\* Failure texts the worker thread posts ({ success: false, error }).
WorkerFailures == {"Failed to write PDF file: EACCES"}
\* Messages of a worker 'error' event.
WorkerErrors == {"out of memory"}
\* Non-zero worker exit codes.
ExitCodes == {1}

\* generatePDFAsync: the messages its promise can reject with (a failure
\* message, the worker's error event, a non-zero exit).  A worker that does
\* none of these and posts no success leaves the promise pending.
RejectMessages ==
  WorkerFailures
    \cup {"Worker error: " \o e : e \in WorkerErrors}
    \cup {"Worker stopped with exit code " \o ToString(c) : c \in ExitCodes}

(* ------------------------ QueueProcessor (model) ---------------------- *)

IdleCall ==
  [pc |-> "idle", doc |-> NoDoc, seen |-> {}, storeErr |-> FALSE,
   renderErr |-> Null]

\* Mutant: the guard is missing.
SkipTickNever == FALSE

\* A faulty guard: the flag of the other instance is tested.
SkipTickOfPeer == peer.isProcessing

\* A faulty guard: the tick is skipped only while no timer is set.
SkipTickStopped == intervalId = Null

\* The guard `if (this.isProcessing) return;`.
SkipTick == isProcessing

\* Mutant: the flag is not cleared when an invocation ends.
FlagStaysSet == TRUE

\* The finally block: the value isProcessing has after an invocation ends.
FlagAfterTick == FALSE

\* Awaits inside the inner try (render, update to completed).
InnerTry == {"render", "update_completed"}
\* Awaits inside the outer try (the inner catch block included).
OuterTry ==
  {"find", "update_processing", "render", "update_completed", "update_failed"}

\* Mutant: only the inner try/catch exists.
CatchOfInnerOnly(pos) == IF pos \in InnerTry THEN "inner" ELSE "none"

\* The catch clause that receives an exception raised at await `pos`.
CatchOf(pos) ==
  IF pos \in InnerTry THEN "inner"
  ELSE IF pos \in OuterTry THEN "outer"
  ELSE "none"

\* Mutant: the raw message is stored.
RawMessage(message) == message

\* The text the inner catch stores for a caught exception.
FailureText(message) == "PDF generation failed: " \o message

\* The lowest free invocation slot.
FreeCalls == {s \in Calls : call[s].pc = "idle"}
FreeCall == CHOOSE s \in FreeCalls : \A t \in FreeCalls : s <= t

\* A faulty processNextJob: the guard sits inside the try block, so the
\* finally block clears the flag of a skipped call too.
processNextJobGuardInTry ==
  IF SkipTick
  THEN /\ lastCall' = "skipped"
       /\ isProcessing' = FlagAfterTick
       /\ UNCHANGED call
  ELSE /\ FreeCalls # {}
       /\ isProcessing' = TRUE
       /\ call' = [call EXCEPT ![FreeCall] = [IdleCall EXCEPT !.pc = "find"]]
       /\ lastCall' = "entered"

\* processNextJob up to its first await: the guard, the flag, the query issued.
processNextJob ==
  IF SkipTick
  THEN /\ lastCall' = "skipped"
       /\ UNCHANGED <<isProcessing, call>>
  ELSE /\ FreeCalls # {}
       /\ isProcessing' = TRUE
       /\ call' = [call EXCEPT ![FreeCall] = [IdleCall EXCEPT !.pc = "find"]]
       /\ lastCall' = "entered"

\* An invocation ends (return or outer catch, then finally).
EndTick(s) ==
  /\ call' = [call EXCEPT ![s] = IdleCall]
  /\ isProcessing' = FlagAfterTick

\* An exception with `message` is raised at the await invocation s is at.
Throw(s, message, fromStore) ==
  LET c == call[s]
      h == CatchOf(c.pc)
  IN  IF h = "inner"
      THEN /\ call' = [call EXCEPT ![s] =
                 [c EXCEPT !.pc = "update_failed",
                           !.doc = updateStatus(c.doc, "failed", Null,
                                                FailureText(message)),
                           !.storeErr = @ \/ fromStore,
                           !.renderErr = IF fromStore THEN @ ELSE message]]
           /\ UNCHANGED <<isProcessing, escaped>>
      ELSE /\ EndTick(s)
           /\ escaped' = (escaped \/ h = "none")

\* A job-store operation rejects (counted against the run's error budget).
StoreRejects ==
  /\ storeErrors < MaxStoreErrors
  /\ storeErrors' = storeErrors + 1

\* The timer callback of setInterval.
TimerTick ==
  /\ proc = "running"
  /\ timers > 0
  /\ processNextJob
  /\ UNCHANGED <<db, clock, proc, intervalId, timers, escaped, storeErrors, restarts,
                 lastStartedAt,
                 renders>>
  /\ UNCHANGED nonQueueVars

\* findOne({status:'pending'}).sort({createdAt:1}) resolves with no record.
FindOneNone(s) ==
  /\ call[s].pc = "find"
  /\ {j \in JobIds : PendingFilter(db[j])} = {}
  /\ EndTick(s)
  /\ UNCHANGED <<db, clock, proc, intervalId, timers, escaped, storeErrors, restarts,
                 lastCall, lastStartedAt,
                 renders>>
  /\ UNCHANGED nonQueueVars

\* findOne resolves with the oldest pending record; updateStatus('processing')
\* is called on it and its save awaited.
FindOneFound(s) ==
  /\ call[s].pc = "find"
  /\ LET pending == {j \in JobIds : PendingFilter(db[j])}
     IN  \E j \in OldestFirst(pending) :
           call' = [call EXCEPT ![s] =
             [pc |-> "update_processing",
              doc |-> updateStatus(LoadDoc(j), "processing", Null, Null),
              seen |-> pending, storeErr |-> FALSE, renderErr |-> Null]]
  /\ UNCHANGED <<db, clock, proc, isProcessing, intervalId, timers, escaped,
                 storeErrors, restarts, lastCall, lastStartedAt,
                 renders>>
  /\ UNCHANGED nonQueueVars

\* findOne rejects.
FindOneFail(s) ==
  /\ call[s].pc = "find"
  /\ StoreRejects
  /\ Throw(s, StoreErrorMessage, TRUE)
  /\ UNCHANGED <<db, clock, proc, intervalId, timers, restarts, lastCall,
                 lastStartedAt,
                 renders>>
  /\ UNCHANGED nonQueueVars

\* The save of 'processing' succeeds; generatePDFAsync starts the worker.
UpdateProcessingOK(s) ==
  /\ call[s].pc = "update_processing"
  /\ LET d == call[s].doc
     IN  /\ db' = [db EXCEPT ![d.jobId] = Saved(@, d)]
         /\ call' = [call EXCEPT ![s].pc = "render",
                                 ![s].doc.modified = {}]
         /\ lastStartedAt' = db[d.jobId].createdAt
         /\ renders' = [renders EXCEPT ![d.jobId] = @ + 1]
  /\ UNCHANGED <<clock, proc, isProcessing, intervalId, timers, escaped, storeErrors,
                 restarts, lastCall>>
  /\ UNCHANGED nonQueueVars

\* The save of 'processing' rejects.
UpdateProcessingFail(s) ==
  /\ call[s].pc = "update_processing"
  /\ StoreRejects
  /\ Throw(s, StoreErrorMessage, TRUE)
  /\ UNCHANGED <<db, clock, proc, intervalId, timers, restarts, lastCall,
                 lastStartedAt,
                 renders>>
  /\ UNCHANGED nonQueueVars

\* The worker posts { success: true, filename }: the promise resolves and
\* updateStatus('completed', filename) is called, its save awaited.
RenderResolve(s) ==
  /\ call[s].pc = "render"
  /\ call' = [call EXCEPT
        ![s].pc = "update_completed",
        ![s].doc = updateStatus(@, "completed", Filename(@.jobId), Null)]
  /\ UNCHANGED <<db, clock, proc, isProcessing, intervalId, timers, escaped,
                 storeErrors, restarts, lastCall, lastStartedAt,
                 renders>>
  /\ UNCHANGED nonQueueVars

\* The promise rejects (failure message, error event or non-zero exit).
RenderReject(s) ==
  /\ call[s].pc = "render"
  /\ \E m \in RejectMessages : Throw(s, m, FALSE)
  /\ UNCHANGED <<db, clock, proc, intervalId, timers, storeErrors, restarts, lastCall,
                 lastStartedAt,
                 renders>>
  /\ UNCHANGED nonQueueVars

\* The save of 'completed' succeeds.
UpdateCompletedOK(s) ==
  /\ call[s].pc = "update_completed"
  /\ db' = [db EXCEPT ![call[s].doc.jobId] = Saved(@, call[s].doc)]
  /\ EndTick(s)
  /\ UNCHANGED <<clock, proc, intervalId, timers, escaped, storeErrors, restarts,
                 lastCall, lastStartedAt,
                 renders>>
  /\ UNCHANGED nonQueueVars

\* The save of 'completed' rejects (inside the inner try).
UpdateCompletedFail(s) ==
  /\ call[s].pc = "update_completed"
  /\ StoreRejects
  /\ Throw(s, StoreErrorMessage, TRUE)
  /\ UNCHANGED <<db, clock, proc, intervalId, timers, restarts, lastCall,
                 lastStartedAt,
                 renders>>
  /\ UNCHANGED nonQueueVars

\* The save of 'failed' succeeds.
UpdateFailedOK(s) ==
  /\ call[s].pc = "update_failed"
  /\ db' = [db EXCEPT ![call[s].doc.jobId] = Saved(@, call[s].doc)]
  /\ EndTick(s)
  /\ UNCHANGED <<clock, proc, intervalId, timers, escaped, storeErrors, restarts,
                 lastCall, lastStartedAt,
                 renders>>
  /\ UNCHANGED nonQueueVars

\* The save of 'failed' rejects (inside the inner catch block).
UpdateFailedFail(s) ==
  /\ call[s].pc = "update_failed"
  /\ StoreRejects
  /\ Throw(s, StoreErrorMessage, TRUE)
  /\ UNCHANGED <<db, clock, proc, intervalId, timers, restarts, lastCall,
                 lastStartedAt,
                 renders>>
  /\ UNCHANGED nonQueueVars

(* ----------------------- start-up and recovery ------------------------ *)

\* A faulty start: no running check, a timer is set by every call.
startUnguarded ==
  /\ processNextJob
  /\ intervalId' = Timer
  /\ timers' = timers + 1

\* QueueProcessor.start: the running check, the immediate processNextJob
\* call and the timer.
start ==
  IF intervalId # Null
  THEN UNCHANGED <<isProcessing, call, lastCall, intervalId, timers>>
  ELSE /\ processNextJob
       /\ intervalId' = Timer
       /\ timers' = timers + 1

\* resumeProcessingJobs has returned: the listen callback goes on to start().
Resumed ==
  /\ proc' = "running"
  /\ start

\* The app.listen callback: resumeProcessingJobs is called and its
\* find({status:'processing'}) awaited.
ServerListen ==
  /\ proc = "listening"
  /\ proc' = "resume_find"
  /\ UNCHANGED <<db, clock, isProcessing, intervalId, timers, call, escaped,
                 storeErrors, restarts, lastCall, lastStartedAt,
                 renders>>
  /\ UNCHANGED nonQueueVars

\* find resolves with no record: nothing to reset.
ResumeFindNone ==
  /\ proc = "resume_find"
  /\ {j \in JobIds : ProcessingFilter(db[j])} = {}
  /\ Resumed
  /\ UNCHANGED <<db, clock, escaped, storeErrors, restarts, lastStartedAt,
                 renders>>
  /\ UNCHANGED nonQueueVars

\* find resolves with records: updateMany is issued and awaited.
ResumeFindSome ==
  /\ proc = "resume_find"
  /\ {j \in JobIds : ProcessingFilter(db[j])} # {}
  /\ proc' = "resume_update"
  /\ UNCHANGED <<db, clock, isProcessing, intervalId, timers, call, escaped,
                 storeErrors, restarts, lastCall, lastStartedAt,
                 renders>>
  /\ UNCHANGED nonQueueVars

\* find rejects: caught and logged inside resumeProcessingJobs.
ResumeFindFail ==
  /\ proc = "resume_find"
  /\ StoreRejects
  /\ Resumed
  /\ UNCHANGED <<db, clock, escaped, restarts, lastStartedAt,
                 renders>>
  /\ UNCHANGED nonQueueVars

\* updateMany({status:'processing'}, {status:'pending'}) takes effect.
ResumeUpdateManyOK ==
  /\ proc = "resume_update"
  /\ db' = [j \in JobIds |->
              IF ProcessingFilter(db[j])
              THEN [db[j] EXCEPT !.status = "pending"]
              ELSE db[j]]
  /\ Resumed
  /\ UNCHANGED <<clock, escaped, storeErrors, restarts, lastStartedAt,
                 renders>>
  /\ UNCHANGED nonQueueVars

\* updateMany rejects: caught and logged inside resumeProcessingJobs.
ResumeUpdateManyFail ==
  /\ proc = "resume_update"
  /\ StoreRejects
  /\ Resumed
  /\ UNCHANGED <<db, clock, escaped, restarts, lastStartedAt,
                 renders>>
  /\ UNCHANGED nonQueueVars

\* The process exits (SIGTERM, SIGINT or a crash) and a new one is started:
\* every in-memory value is back at its constructed state, the store is kept.
Restart ==
  /\ restarts < MaxRestarts
  /\ restarts' = restarts + 1
  /\ proc' = "listening"
  /\ isProcessing' = FALSE
  /\ intervalId' = Null
  /\ timers' = 0
  /\ call' = [s \in Calls |-> IdleCall]
  /\ lastCall' = "none"
  /\ lastStartedAt' = 0
  /\ UNCHANGED <<db, clock, escaped, storeErrors, renders>>
  /\ UNCHANGED nonQueueVars

\* QueueProcessor.stop: the timer held in intervalId is cleared.
stop ==
  IF intervalId # Null
  THEN /\ timers' = timers - 1
       /\ intervalId' = Null
  ELSE UNCHANGED <<intervalId, timers>>

\* start() is called on the processor of the running process: a second call,
\* or a call after stop().
StartCall ==
  /\ proc = "running"
  /\ start
  /\ UNCHANGED <<db, clock, proc, escaped, storeErrors, restarts,
                 lastStartedAt, renders>>
  /\ UNCHANGED nonQueueVars

\* stop() is called on the processor of the running process, which goes on
\* running.
StopCall ==
  /\ proc = "running"
  /\ stop
  /\ UNCHANGED <<db, clock, proc, isProcessing, call, escaped, storeErrors,
                 restarts, lastCall, lastStartedAt, renders>>
  /\ UNCHANGED nonQueueVars

(* ----------------------------- submission ----------------------------- *)

Whitespace == {" ", "\n"}

RECURSIVE TrimStart(_)
TrimStart(str) ==
  IF Len(str) > 0 /\ SubSeq(str, 1, 1) \in Whitespace
  THEN TrimStart(SubSeq(str, 2, Len(str)))
  ELSE str

RECURSIVE TrimEnd(_)
TrimEnd(str) ==
  IF Len(str) > 0 /\ SubSeq(str, Len(str), Len(str)) \in Whitespace
  THEN TrimEnd(SubSeq(str, 1, Len(str) - 1))
  ELSE str

\* String.prototype.trim.
Trim(str) == TrimEnd(TrimStart(str))

\* The `content` field of a request body: absent, not a string, or a string.
Bodies ==
  {[type |-> "undefined", value |-> ""],
   [type |-> "number", value |-> "42"],
   [type |-> "string", value |-> ""],
   [type |-> "string", value |-> " \n"],
   [type |-> "string", value |-> " alpha, beta, gamma\n"]}

\* A faulty validation: a blank string passes.
RejectedUntrimmed(body) ==
  \/ body.type # "string"
  \/ body.value = ""

\* The validation of POST /generate: the request is answered 400.
Rejected(body) ==
  \/ body.type = "undefined"
  \/ body.type = "string" /\ body.value = ""
  \/ body.type # "string"
  \/ Len(Trim(body.value)) = 0

\* Date.now() at an insert (timestamps: true): the same millisecond as the
\* previous insert or a later one; the first insert is at time 1.
InsertTimes == IF db = <<>> THEN {1} ELSE {clock, clock + 1}

\* POST /api/pdf/generate on the job store: an invalid body creates nothing;
\* a valid one inserts a pending record with the trimmed content.
generate(body) ==
  IF Rejected(body)
  THEN UNCHANGED queueVars
  ELSE /\ Len(db) < MaxJobs
       /\ \E now \in InsertTimes :
            /\ clock' = now
            /\ db' = Append(db, NewJob(Trim(body.value), now))
            /\ renders' = Append(renders, 0)
       /\ UNCHANGED <<proc, isProcessing, intervalId, timers, call, escaped,
                      storeErrors, restarts, lastCall, lastStartedAt>>

\* A submission whose response is not observed.
Submit ==
  /\ \E body \in Bodies : generate(body)
  /\ UNCHANGED nonQueueVars

\* POST /api/pdf/generate with a valid body whose save rejects: answered 500,
\* no record.
SubmitStoreError ==
  /\ \E body \in Bodies : ~Rejected(body)
  /\ StoreRejects
  /\ UNCHANGED <<db, clock, proc, isProcessing, intervalId, timers, call, escaped,
                 restarts, lastCall, lastStartedAt,
                 renders>>
  /\ UNCHANGED nonQueueVars

(* ----------------------- a second QueueProcessor ---------------------- *)

\* The second instance before its start() is called.
PeerOff == [on |-> FALSE, isProcessing |-> FALSE, call |-> IdleCall]

\* What a step of the second instance leaves alone beside the collection.
nonPeerVars ==
  <<clock, proc, isProcessing, intervalId, timers, call, escaped, storeErrors,
    restarts, lastCall, lastStartedAt, layoutVars, http, sideVars>>

\* processNextJob of the second instance up to its first await: its own flag
\* guards it.
PeerProcessNextJob ==
  IF peer.isProcessing
  THEN UNCHANGED peer
  ELSE peer' = [peer EXCEPT !.isProcessing = TRUE, !.call.pc = "find"]

\* An invocation of the second instance ends.
PeerEndTick == peer' = [peer EXCEPT !.isProcessing = FlagAfterTick,
                                    !.call = IdleCall]

\* start() of the second instance: the first call and the timer.
PeerStart ==
  /\ ~peer.on
  /\ peer' = [peer EXCEPT !.on = TRUE, !.isProcessing = TRUE,
                          !.call.pc = "find"]
  /\ UNCHANGED <<db, renders, nonPeerVars>>

\* The timer callback of the second instance.
PeerTimerTick ==
  /\ peer.on
  /\ PeerProcessNextJob
  /\ UNCHANGED <<db, renders, nonPeerVars>>

PeerFindOneNone ==
  /\ peer.call.pc = "find"
  /\ {j \in JobIds : PendingFilter(db[j])} = {}
  /\ PeerEndTick
  /\ UNCHANGED <<db, renders, nonPeerVars>>

PeerFindOneFound ==
  /\ peer.call.pc = "find"
  /\ LET pending == {j \in JobIds : PendingFilter(db[j])}
     IN  \E j \in OldestFirst(pending) :
           peer' = [peer EXCEPT
             !.call.pc = "update_processing",
             !.call.doc = updateStatus(LoadDoc(j), "processing", Null, Null)]
  /\ UNCHANGED <<db, renders, nonPeerVars>>

PeerUpdateProcessingOK ==
  /\ peer.call.pc = "update_processing"
  /\ LET d == peer.call.doc
     IN  /\ db' = [db EXCEPT ![d.jobId] = Saved(@, d)]
         /\ peer' = [peer EXCEPT !.call.pc = "render",
                                 !.call.doc.modified = {}]
         /\ renders' = [renders EXCEPT ![d.jobId] = @ + 1]
  /\ UNCHANGED nonPeerVars

PeerRenderResolve ==
  /\ peer.call.pc = "render"
  /\ peer' = [peer EXCEPT
        !.call.pc = "update_completed",
        !.call.doc = updateStatus(@, "completed", Filename(@.jobId), Null)]
  /\ UNCHANGED <<db, renders, nonPeerVars>>

PeerRenderReject ==
  /\ peer.call.pc = "render"
  /\ \E m \in RejectMessages :
       peer' = [peer EXCEPT
         !.call.pc = "update_failed",
         !.call.doc = updateStatus(@, "failed", Null, FailureText(m))]
  /\ UNCHANGED <<db, renders, nonPeerVars>>

\* The save of 'completed' or of 'failed' by the second instance succeeds.
PeerUpdateFinalOK ==
  /\ peer.call.pc \in {"update_completed", "update_failed"}
  /\ db' = [db EXCEPT ![peer.call.doc.jobId] = Saved(@, peer.call.doc)]
  /\ PeerEndTick
  /\ UNCHANGED <<renders, nonPeerVars>>

(* ------------------------------ routes -------------------------------- *)

\* A field the response body does not have.
Absent == "<absent>"

\* The fields of a response: the status code, the JSON fields the routes
\* send, and the file handed to res.sendFile.
NoResponse ==
  [code |-> 0, error |-> Absent, jobId |-> Absent, status |-> Absent,
   ready |-> FALSE, createdAt |-> 0, filePath |-> Absent,
   errorMessage |-> Absent, file |-> Absent]

\* res.status(code).json({error}).
ErrorResponse(code, error) == [NoResponse EXCEPT !.code = code, !.error = error]

\* The jobId string of record j (a uuid in the source).
IdOf(j) == ToString(j)

\* The :jobId parameters of the requests: the ids of records, an id with a
\* space around it, an id no record has, and a blank.
Params == {IdOf(j) : j \in 1..MaxJobs} \cup {" 1", "none", " "}

\* The validation of :jobId.
BlankParam(param) == param = "" \/ Len(Trim(param)) = 0

\* PDFJob.findOne({jobId: jobId.trim()}): the records found (none or one).
findOneByJobId(param) == {j \in JobIds : IdOf(j) = Trim(param)}

\* The response of POST /generate when the save is accepted.
GenerateResponse(body) ==
  IF Rejected(body)
  THEN ErrorResponse(400, "Content is required and must be a non-empty string")
  ELSE [NoResponse EXCEPT !.code = 201, !.jobId = IdOf(Len(db) + 1)]

\* A faulty status route: an unknown id is answered with a default record.
StatusOfFound(js) ==
  IF js = {}
  THEN [NoResponse EXCEPT !.code = 200, !.status = "pending"]
  ELSE LET rec == db[CHOOSE j \in js : TRUE]
       IN  [NoResponse EXCEPT
              !.code = 200,
              !.jobId = IdOf(CHOOSE j \in js : TRUE),
              !.status = rec.status]

\* GET /status/:jobId after the findOne resolved with the records js.
StatusOf(js) ==
  IF js = {}
  THEN ErrorResponse(404, "Job not found")
  ELSE LET rec == db[CHOOSE j \in js : TRUE]
       IN  [NoResponse EXCEPT
              !.code = 200,
              !.jobId = IdOf(CHOOSE j \in js : TRUE),
              !.status = rec.status,
              !.ready = (rec.status = "completed"),
              !.createdAt = rec.createdAt,
              !.filePath = IF rec.status = "completed" /\ Truthy(rec.filePath)
                           THEN rec.filePath ELSE Absent,
              !.errorMessage = IF rec.status = "failed" /\ Truthy(rec.errorMessage)
                               THEN rec.errorMessage ELSE Absent]

\* The response of GET /status/:jobId when the findOne is accepted.
StatusResponse(param) ==
  IF BlankParam(param)
  THEN ErrorResponse(400, "Job ID is required and must be a non-empty string")
  ELSE StatusOf(findOneByJobId(param))

\* A faulty readiness test: a record in any final status passes.
NotReadyUnlessFinal(rec) == rec.status \notin {"completed", "failed"}

\* The readiness test of GET /download/:jobId.
NotReady(rec) == rec.status # "completed"

\* What the route finds on disk: no file (fs.existsSync is false), a file
\* that res.sendFile fails to deliver, or a file that is delivered.
Disk == {"missing", "unreadable", "readable"}

\* The request did not look at the disk.
Unread == "unread"

\* GET /download/:jobId for the record found.
DownloadOf(rec, disk) ==
  IF NotReady(rec)
  THEN ErrorResponse(400, "PDF is not ready for download. Current status: "
                          \o rec.status)
  ELSE IF ~Truthy(rec.filePath)
  THEN ErrorResponse(500, "PDF file path not found in job record")
  ELSE IF disk = "missing"
  THEN ErrorResponse(404, "PDF file not found on server")
  ELSE IF disk = "unreadable"
  THEN ErrorResponse(500, "Error serving PDF file")
  ELSE [NoResponse EXCEPT !.code = 200, !.file = rec.filePath]

\* The response of GET /download/:jobId when the findOne is accepted.
DownloadResponse(param, disk) ==
  IF BlankParam(param)
  THEN ErrorResponse(400, "Job ID is required and must be a non-empty string")
  ELSE IF findOneByJobId(param) = {}
  THEN ErrorResponse(404, "Job not found")
  ELSE DownloadOf(db[CHOOSE j \in findOneByJobId(param) : TRUE], disk)

\* The request gets as far as fs.existsSync.
ReachesDisk(param) ==
  /\ ~BlankParam(param)
  /\ \E j \in findOneByJobId(param) :
       ~NotReady(db[j]) /\ Truthy(db[j].filePath)

\* The exchange of a GET route.
Get(route, param, disk, res) ==
  [route |-> route, req |-> [type |-> "param", value |-> param],
   disk |-> disk, res |-> res]

\* POST /api/pdf/generate, answered.
PostGenerate ==
  /\ \E body \in Bodies :
       /\ generate(body)
       /\ http' = [route |-> "generate", req |-> body, disk |-> Unread,
                   res |-> GenerateResponse(body)]
  /\ UNCHANGED nonRouteVars

\* POST /api/pdf/generate with a valid body whose save rejects.
PostGenerateStoreError ==
  /\ \E body \in Bodies :
       /\ ~Rejected(body)
       /\ http' = [route |-> "generate", req |-> body, disk |-> Unread,
                   res |-> ErrorResponse(500,
                             "Internal server error while creating PDF job")]
  /\ UNCHANGED <<queueVars, nonRouteVars>>

\* GET /api/pdf/status/:jobId.
GetStatus ==
  /\ \E param \in Params :
       http' = Get("status", param, Unread, StatusResponse(param))
  /\ UNCHANGED <<queueVars, nonRouteVars>>

\* GET /api/pdf/status/:jobId whose findOne rejects.
GetStatusStoreError ==
  /\ \E param \in Params :
       /\ ~BlankParam(param)
       /\ http' = Get("status", param, Unread,
                      ErrorResponse(500,
                        "Internal server error while retrieving job status"))
  /\ UNCHANGED <<queueVars, nonRouteVars>>

\* GET /api/pdf/download/:jobId.
GetDownload ==
  /\ \E param \in Params :
       \E disk \in (IF ReachesDisk(param) THEN Disk ELSE {Unread}) :
         http' = Get("download", param, disk, DownloadResponse(param, disk))
  /\ UNCHANGED <<queueVars, nonRouteVars>>

\* GET /api/pdf/download/:jobId whose findOne rejects.
GetDownloadStoreError ==
  /\ \E param \in Params :
       /\ ~BlankParam(param)
       /\ http' = Get("download", param, Unread,
                      ErrorResponse(500,
                        "Internal server error while downloading PDF"))
  /\ UNCHANGED <<queueVars, nonRouteVars>>

(* ------------------------- SpiralGenerator ---------------------------- *)

\* The longest word list given to the layout.
MaxWords == 7

\* The words the inputs are made of.
LayoutWords == {"a", "dddd", "kkkkkkkkkk"}

\* The position of the first occurrence of character ch in str, 0 if none.
IndexOf(str, ch) ==
  IF \E i \in 1..Len(str) : SubSeq(str, i, i) = ch
  THEN CHOOSE i \in 1..Len(str) :
         /\ SubSeq(str, i, i) = ch
         /\ \A k \in 1..(i - 1) : SubSeq(str, k, k) # ch
  ELSE 0

\* String.prototype.split with a one-character separator.
RECURSIVE split(_, _)
split(str, sep) ==
  IF IndexOf(str, sep) = 0
  THEN <<str>>
  ELSE <<SubSeq(str, 1, IndexOf(str, sep) - 1)>>
       \o split(SubSeq(str, IndexOf(str, sep) + 1, Len(str)), sep)

\* Array.prototype.join.
RECURSIVE join(_, _)
join(parts, sep) ==
  IF Len(parts) = 0 THEN ""
  ELSE IF Len(parts) = 1 THEN parts[1]
  ELSE parts[1] \o sep \o join(Tail(parts), sep)

\* SpiralGenerator.insertChars: char repeated max(0, n) times.
RECURSIVE insertChars(_, _)
insertChars(char, n) ==
  IF n <= 0 THEN "" ELSE char \o insertChars(char, n - 1)

\* String.prototype.padEnd / padStart with spaces.
padEnd(str, n) == str \o insertChars(" ", n - Len(str))

padStart(str, n) == insertChars(" ", n - Len(str)) \o str

\* Math.max over the lengths of the lines.
MaxLength(lines) ==
  CHOOSE m \in {Len(lines[i]) : i \in 1..Len(lines)} :
    \A i \in 1..Len(lines) : Len(lines[i]) <= m

\* A faulty align: the lines are returned as they are.
alignNone(lines, dir) == lines

\* A faulty align: lines are padded at their end for 'left' and left as they
\* are for 'right'.
alignLeftOnly(lines, dir) ==
  [i \in 1..Len(lines) |->
     IF dir = "left" THEN padEnd(lines[i], MaxLength(lines)) ELSE lines[i]]

\* A faulty align: every line padded one column beyond the longest one.
alignWider(lines, dir) ==
  [i \in 1..Len(lines) |->
     IF dir = "left" THEN padEnd(lines[i], MaxLength(lines) + 1)
                     ELSE padStart(lines[i], MaxLength(lines) + 1)]

\* SpiralGenerator.align: every line padded to the longest one, at its end
\* ('left') or at its start ('right').
align(lines, dir) ==
  [i \in 1..Len(lines) |->
     IF dir = "left" THEN padEnd(lines[i], MaxLength(lines))
                     ELSE padStart(lines[i], MaxLength(lines))]

\* A row loop that stops when the row is wide enough or holds two words.
fillRowTwoWords(row, ws, target, atEnd) ==
  LET put(r, w) == IF atEnd THEN Append(r, w) ELSE <<w>> \o r
      one == put(row, Head(ws))
  IN  IF Len(ws) = 0 THEN [row |-> row, words |-> ws]
      ELSE IF Len(join(one, " ")) >= target \/ Len(ws) = 1
      THEN [row |-> one, words |-> Tail(ws)]
      ELSE [row |-> put(one, ws[2]), words |-> Tail(Tail(ws))]

\* The row loop of a TOP or BOTTOM phase: words are taken while the joined
\* row is shorter than target or the row has fewer than two elements (the gap
\* counts as one); TOP pushes, BOTTOM unshifts.
RECURSIVE fillRow(_, _, _, _)
fillRow(row, ws, target, atEnd) ==
  IF (Len(join(row, " ")) < target \/ Len(row) < 2) /\ Len(ws) > 0
  THEN fillRow(IF atEnd THEN Append(row, Head(ws)) ELSE <<Head(ws)>> \o row,
               Tail(ws), target, atEnd)
  ELSE [row |-> row, words |-> ws]

\* A TOP phase whose row always ends after its first word.
topPhaseOneWord(lines, ws) ==
  LET gap    == Len(split(lines[Len(lines)], "|")[1]) + 1
      filled == fillRow(<<insertChars(" ", gap)>>, ws, 0, TRUE)
      text   == join(filled.row, " ")
      separator == insertChars(" ", gap) \o insertChars("-", Len(text) + 3 - gap)
  IN  [result |-> align(align(lines, "right") \o <<separator, text>>, "left"),
       words  |-> filled.words]

\* case 0 (TOP): a separator and a row are pushed at the end of the block.
topPhase(lines, ws) ==
  LET target == Len(lines[1])
      gap    == Len(split(lines[Len(lines)], "|")[1]) + 1
      filled == fillRow(<<insertChars(" ", gap)>>, ws, target, TRUE)
      text   == join(filled.row, " ")
      separator == insertChars(" ", gap) \o insertChars("-", Len(text) + 3 - gap)
  IN  [result |-> align(align(lines, "right") \o <<separator, text>>, "left"),
       words  |-> filled.words]

\* The for loop of case 1: i is the loop counter, the line at 0-based index
\* length - 1 - i gets '| word'.
RECURSIVE rightLoop(_, _, _)
rightLoop(lines, ws, i) ==
  IF i > Len(lines) - 1 \/ Len(ws) = 0
  THEN [result |-> lines, words |-> ws]
  ELSE rightLoop([lines EXCEPT ![Len(lines) - i] = @ \o "| " \o Head(ws)],
                 Tail(ws), i + 1)

\* A RIGHT phase whose loop starts one line lower, at the second-to-last line.
rightPhaseFromSecondLast(lines, ws) ==
  [result |-> align(rightLoop(lines, ws, 1).result, "left"),
   words  |-> rightLoop(lines, ws, 1).words]

\* case 1 (RIGHT).
rightPhase(lines, ws) ==
  [result |-> align(rightLoop(lines, ws, 2).result, "left"),
   words  |-> rightLoop(lines, ws, 2).words]

\* The row of a BOTTOM phase put after the last line instead.
bottomPhaseBelow(lines, ws) == topPhase(lines, ws)

\* case 2 (BOTTOM): a row and a separator are unshifted at the start of the
\* block.
bottomPhase(lines, ws) ==
  LET target == Len(lines[Len(lines)])
      parts  == split(lines[1], "|")
      gap    == Len(parts[Len(parts)]) + 1
      filled == fillRow(<<insertChars(" ", gap)>>, ws, target, FALSE)
      text   == join(filled.row, " ")
      separator == insertChars("-", Len(text) + 3 - gap) \o insertChars(" ", gap)
  IN  [result |-> align(<<text, separator>> \o lines, "right"),
       words  |-> filled.words]

\* The for loop of case 3: the line at 0-based index i gets 'word |'.
RECURSIVE leftLoop(_, _, _)
leftLoop(lines, ws, i) ==
  IF i > Len(lines) - 1 \/ Len(ws) = 0
  THEN [result |-> lines, words |-> ws]
  ELSE leftLoop([lines EXCEPT ![i + 1] = Head(ws) \o " |" \o @],
                Tail(ws), i + 1)

\* A faulty case 3: the words are taken and not written.
leftPhaseDrop(lines, ws) ==
  [result |-> align(lines, "right"),
   words  |-> leftLoop(lines, ws, 2).words]

\* A LEFT phase that places no word.
leftPhaseIdle(lines, ws) == [result |-> lines, words |-> ws]

\* case 3 (LEFT).
leftPhase(lines, ws) ==
  [result |-> align(leftLoop(lines, ws, 2).result, "right"),
   words  |-> leftLoop(lines, ws, 2).words]

\* The snail head padded on the left to the width of the block.
OrnamentFlushRight(lines) ==
  <<padStart("\\/", Len(lines[1])), padStart("_____(oo)", Len(lines[1]))>>

\* The snail head appended after the loop.
Ornament(lines) ==
  <<insertChars(" ", Len(lines[1]) + 3) \o "     \\/",
    insertChars(" ", Len(lines[1]) + 3) \o "_____(oo)">>

\* The word lists of at most MaxWords words.
WordLists == UNION {[1..n -> LayoutWords] : n \in 0..MaxWords}

\* The arguments of generateSpiral: absent, not a string, comma-separated
\* words, and strings with blank items.
Inputs ==
  {[type |-> "string", value |-> join(ws, ", ")] : ws \in WordLists}
  \cup {[type |-> "undefined", value |-> ""],
        [type |-> "number", value |-> "42"],
        [type |-> "string", value |-> " , ,\n"],
        [type |-> "string", value |-> " dddd,, a \n"]}

\* generateSpiral lines 18-20: split on commas, trim, drop the empty items.
RECURSIVE Trimmed(_)
Trimmed(parts) ==
  IF Len(parts) = 0 THEN <<>> ELSE <<Trim(Head(parts))>> \o Trimmed(Tail(parts))

\* A filter that keeps the blank items.
KeepsBlank(str) == TRUE

NonEmpty(str) == Len(str) > 0

ParseWords(str) == SelectSeq(Trimmed(split(str, ",")), NonEmpty)

\* generateSpiral returns '' without calling spiral.
NoWords(arg) ==
  \/ arg.type # "string"
  \/ arg.value = ""
  \/ Len(ParseWords(arg.value)) = 0

\* A marker line without the blank between the bar and the word.
markerLineNoGap(word) == ">>> |" \o word

\* The first line of the block: the start marker followed by the first word.
markerLine(word) == ">>> | " \o word

\* generateSpiral up to the first test of the loop of spiral: '' for an input
\* without words, else the marker line with the first word.
GenerateSpiral ==
  /\ layoutPc = "called"
  /\ IF NoWords(input)
     THEN /\ output' = ""
          /\ layoutPc' = "returned"
          /\ UNCHANGED <<words, result, direction>>
     ELSE /\ words' = Tail(ParseWords(input.value))
          /\ result' = align(<<markerLine(Head(ParseWords(input.value)))>>, "right")
          /\ direction' = 2
          /\ layoutPc' = "loop"
          /\ UNCHANGED output
  /\ UNCHANGED <<input, nonLayoutVars>>

\* The four directions taken in the opposite order.
nextDirectionBack(d) == (d + 3) % 4

\* The direction after an iteration of the loop of spiral.
nextDirection(d) == (d + 1) % 4

\* One iteration of the while loop of spiral with direction 0.
Top ==
  /\ layoutPc = "loop"
  /\ Len(words) > 0
  /\ direction = 0
  /\ result' = topPhase(result, words).result
  /\ words' = topPhase(result, words).words
  /\ direction' = nextDirection(direction)
  /\ UNCHANGED <<input, layoutPc, output, nonLayoutVars>>

\* One iteration with direction 1.
Right ==
  /\ layoutPc = "loop"
  /\ Len(words) > 0
  /\ direction = 1
  /\ result' = rightPhase(result, words).result
  /\ words' = rightPhase(result, words).words
  /\ direction' = nextDirection(direction)
  /\ UNCHANGED <<input, layoutPc, output, nonLayoutVars>>

\* One iteration with direction 2.
Bottom ==
  /\ layoutPc = "loop"
  /\ Len(words) > 0
  /\ direction = 2
  /\ result' = bottomPhase(result, words).result
  /\ words' = bottomPhase(result, words).words
  /\ direction' = nextDirection(direction)
  /\ UNCHANGED <<input, layoutPc, output, nonLayoutVars>>

\* One iteration with direction 3.
Left ==
  /\ layoutPc = "loop"
  /\ Len(words) > 0
  /\ direction = 3
  /\ result' = leftPhase(result, words).result
  /\ words' = leftPhase(result, words).words
  /\ direction' = nextDirection(direction)
  /\ UNCHANGED <<input, layoutPc, output, nonLayoutVars>>

\* The loop has ended: the snail head is appended and the lines are joined.
SpiralReturn ==
  /\ layoutPc = "loop"
  /\ Len(words) = 0
  /\ result' = result \o Ornament(result)
  /\ output' = join(result \o Ornament(result), "\n")
  /\ layoutPc' = "returned"
  /\ UNCHANGED <<input, words, direction, nonLayoutVars>>

(* ------------------------ SpiralGenerator.align ----------------------- *)

\* The longest block passed to align and the number of successive calls.
MaxLines == 3
MaxAligns == 2

\* Lines of different lengths, with and without blanks at their ends.
AlignLines == {"", "a", " bb", "ccc "}

\* The blocks of at most MaxLines lines.
Blocks == UNION {[1..n -> AlignLines] : n \in 0..MaxLines}

\* The direction argument of align.
Directions == {"left", "right"}

\* result = this.align(result, dir): one call, applied to the block at hand.
Align ==
  /\ Len(aligns) < MaxAligns
  /\ \E dir \in Directions :
       /\ block' = align(block, dir)
       /\ aligns' = Append(aligns, dir)
  /\ UNCHANGED nonAlignVars

(* ----------------------- the page (pdf-utils.js) ---------------------- *)

\* The attempts of one monitoring loop (20 in the source), the steps of the
\* browser clock and the page loads of a run.
maxAttempts == 2
MaxTime == 3
MaxReloads == 1

\* 24 hours, in steps of 12 hours.
maxAge == 2

\* localStorage without the two items of the page.
EmptyStorage == [jobId |-> Null, timestamp |-> Null]

\* The status section hidden.
HiddenPage == [jobId |-> Null, status |-> Null, link |-> Null]

\* The content the page submits: the normalized strings joined with ', '.
PageBody == [type |-> "string", value |-> "alpha, beta, gamma"]

\* parseInt of a stored timestamp.
parseInt(str) == CHOOSE n \in 0..MaxTime : ToString(n) = str

\* api.js getDownloadURL.
getDownloadURL(jobId) == "/api/pdf/download/" \o Trim(jobId)

\* showPDFStatus: the section shows the job id, 'pending' and no link.
showPDFStatus(jobId) == [jobId |-> jobId, status |-> "pending", link |-> Null]

\* updatePDFStatus: the badge is set and the link shown for 'completed'; the
\* job id element is left as it is.
updatePDFStatus(shown, status, jobId) ==
  [shown EXCEPT !.status = status,
                !.link = IF status = "completed" THEN getDownloadURL(jobId)
                         ELSE Null]

\* saveJobToStorage.
saveJobToStorage(jobId) ==
  [jobId |-> jobId, timestamp |-> ToString(browserTime)]

\* getLastJobFromStorage finds the two items.
Stored == Truthy(storage.jobId) /\ Truthy(storage.timestamp)

\* getLastJobFromStorage: the stored job is older than 24 hours.
Expired == browserTime - parseInt(storage.timestamp) > maxAge

\* checkStatus(jobId).status when the request is answered 200.
checkStatus(jobId) == StatusResponse(jobId).status

\* generateSpiralPDF with an accepted submission: the job is created, its id
\* stored and shown, and its monitoring loop started.
GenerateSpiralPDF ==
  /\ generate(PageBody)
  /\ LET jobId == GenerateResponse(PageBody).jobId
     IN  /\ storage' = saveJobToStorage(jobId)
         /\ page' = showPDFStatus(jobId)
         /\ monitors' = monitors \cup {[jobId |-> jobId, attempts |-> 0]}
  /\ lastSubmitAt' = browserTime
  /\ UNCHANGED <<browserTime, checked, reloads, nonClientVars>>

\* The monitoring loops a page can have: the job and the runs made so far.
Monitors ==
  [jobId : {IdOf(j) : j \in 1..MaxJobs}, attempts : 0..(maxAttempts - 1)]

\* One run of checkJobStatus of monitoring loop m whose status request is
\* answered: the display is updated; the loop ends on 'completed', on 'failed'
\* (the stored job is cleared) and after maxAttempts runs.
CheckJobStatus(m) ==
  /\ m \in monitors
  /\ LET status == checkStatus(m.jobId)
         attempts == m.attempts + 1
     IN  /\ page' = updatePDFStatus(page, status, m.jobId)
         /\ storage' = IF status = "failed" THEN EmptyStorage ELSE storage
         /\ monitors' =
              IF status \in {"completed", "failed"} \/ attempts >= maxAttempts
              THEN monitors \ {m}
              ELSE (monitors \ {m}) \cup {[m EXCEPT !.attempts = attempts]}
         /\ checked' = [jobId |-> m.jobId, attempts |-> attempts,
                        outcome |-> status]
  /\ UNCHANGED <<browserTime, lastSubmitAt, reloads, queueVars, nonClientVars>>

\* The errors a status request of a monitored job can throw: the fetch fails
\* (APIError with status 0) or the route answers 500.
StatusErrors == {[status |-> 0], [status |-> 500]}

\* A faulty isNetworkError: every APIError counts as a network error.
isAPIError(error) == error.status \in {0, 500}

\* api.js isNetworkError.
isNetworkError(error) == error.status = 0

\* One run of checkJobStatus of monitoring loop m whose status request throws
\* error: a network error before the last attempt schedules the next run;
\* otherwise the display is set to 'failed' and the stored job is cleared.
CheckJobStatusError(m, error) ==
  /\ m \in monitors
  /\ LET attempts == m.attempts + 1
         retry == isNetworkError(error) /\ attempts < maxAttempts
     IN  /\ page' = IF retry THEN page
                    ELSE updatePDFStatus(page, "failed", m.jobId)
         /\ storage' = IF retry THEN storage ELSE EmptyStorage
         /\ monitors' =
              IF retry
              THEN (monitors \ {m}) \cup {[m EXCEPT !.attempts = attempts]}
              ELSE monitors \ {m}
         /\ checked' = [jobId |-> m.jobId, attempts |-> attempts,
                        outcome |-> "error " \o ToString(error.status)]
  /\ UNCHANGED <<browserTime, lastSubmitAt, reloads, queueVars, nonClientVars>>

\* The page is loaded again (reload, or closed and opened later): the loops
\* of the old page are gone, and initializePDFUtils runs
\* restoreLastJobFromStorage, whose status request is answered.
Reload ==
  /\ reloads < MaxReloads
  /\ reloads' = reloads + 1
  /\ IF ~Stored
     THEN /\ page' = HiddenPage
          /\ monitors' = {}
          /\ UNCHANGED storage
     ELSE IF Expired
     THEN /\ page' = HiddenPage
          /\ monitors' = {}
          /\ storage' = EmptyStorage
     ELSE LET lastJobId == storage.jobId
              status == checkStatus(lastJobId)
          IN  /\ page' = updatePDFStatus(showPDFStatus(lastJobId), status, lastJobId)
              /\ monitors' = IF status \in {"pending", "processing"}
                             THEN {[jobId |-> lastJobId, attempts |-> 0]}
                             ELSE {}
              /\ storage' = IF status \in {"pending", "processing", "completed"}
                            THEN storage ELSE EmptyStorage
  /\ UNCHANGED <<browserTime, checked, lastSubmitAt, queueVars, nonClientVars>>

\* Twelve hours pass.
TimePasses ==
  /\ browserTime < MaxTime
  /\ browserTime' = browserTime + 1
  /\ UNCHANGED <<storage, page, monitors, checked, lastSubmitAt, reloads,
                 queueVars, nonClientVars>>

(* -------------------------- normalizeBrackets ------------------------- *)

\* The longest argument of normalizeBrackets.
MaxText == 5

\* The characters of the arguments: the two parentheses, a letter, a blank.
BracketChars == {"(", ")", "a", " "}

\* The arguments: absent, not a string, and every string of at most MaxText
\* characters.
BracketInputs ==
  {[type |-> "string", value |-> join(cs, "")] :
     cs \in UNION {[1..n -> BracketChars] : n \in 0..MaxText}}
  \cup {[type |-> "undefined", value |-> ""], [type |-> "number", value |-> "42"]}

\* How often ch occurs in str.
Occurrences(str, ch) ==
  Cardinality({i \in 1..Len(str) : SubSeq(str, i, i) = ch})

\* A faulty check: only the numbers of '(' and ')' are compared.
checkCountsOnly(str) == Occurrences(str, "(") = Occurrences(str, ")")

\* The for loop of checkInternalBrackets from position i on with counter ref:
\* false as soon as ref drops below 0, else ref === 0 at the end.
RECURSIVE checkFrom(_, _, _)
checkFrom(str, i, ref) ==
  IF i > Len(str) THEN ref = 0
  ELSE IF SubSeq(str, i, i) = "(" THEN checkFrom(str, i + 1, ref + 1)
  ELSE IF SubSeq(str, i, i) = ")"
       THEN IF ref - 1 < 0 THEN FALSE ELSE checkFrom(str, i + 1, ref - 1)
  ELSE checkFrom(str, i + 1, ref)

checkInternalBrackets(str) == checkFrom(str, 1, 0)

\* word.slice(1, -1).
sliceInner(str) == SubSeq(str, 2, Len(str) - 1)

\* The condition of the while loop of normalizeBrackets.
OuterPair(str) ==
  /\ Len(str) > 1
  /\ SubSeq(str, 1, 1) = "("
  /\ SubSeq(str, Len(str), Len(str)) = ")"
  /\ checkInternalBrackets(sliceInner(str))

\* normalizeBrackets up to the first test of its loop: '' for a falsy or
\* non-string argument, else the trimmed argument becomes word.
NormalizeBrackets ==
  /\ bracketPc = "called"
  /\ IF bracketInput.type # "string" \/ bracketInput.value = ""
     THEN /\ normalized' = ""
          /\ bracketPc' = "returned"
          /\ UNCHANGED bracketWord
     ELSE /\ bracketWord' = Trim(bracketInput.value)
          /\ bracketPc' = "loop"
          /\ UNCHANGED normalized
  /\ UNCHANGED <<bracketInput, nonBracketVars>>

\* One iteration of the while loop: the outer pair is removed.
StripOuter ==
  /\ bracketPc = "loop"
  /\ OuterPair(bracketWord)
  /\ bracketWord' = sliceInner(bracketWord)
  /\ UNCHANGED <<bracketInput, bracketPc, normalized, nonBracketVars>>

\* The loop has ended: word is returned.
BracketsReturn ==
  /\ bracketPc = "loop"
  /\ ~OuterPair(bracketWord)
  /\ normalized' = bracketWord
  /\ bracketPc' = "returned"
  /\ UNCHANGED <<bracketInput, bracketWord, nonBracketVars>>

(* ------------- the normalizers as functions of their argument --------- *)

\* The while loop of normalizeBrackets.
RECURSIVE stripOuter(_)
stripOuter(str) == IF OuterPair(str) THEN stripOuter(sliceInner(str)) ELSE str

\* normalizeBrackets of a string.
normalizeBrackets(str) == IF str = "" THEN "" ELSE stripOuter(Trim(str))

\* The pairs mapping of normalizePairsEN.
pairs ==
  [a |-> "z", b |-> "y", c |-> "x", d |-> "w", e |-> "v", f |-> "u", g |-> "t",
   h |-> "s", i |-> "r", j |-> "q", k |-> "p", l |-> "o", m |-> "n"]

\* The characters of the arguments of normalizePairsEN: the two letters of a
\* pair, a capital and a blank.
PairChars == {"a", "z", "A", " "}

\* String.prototype.toLowerCase on the characters of the arguments.
RECURSIVE toLowerCase(_)
toLowerCase(str) ==
  IF str = "" THEN ""
  ELSE (IF SubSeq(str, 1, 1) = "A" THEN "a" ELSE SubSeq(str, 1, 1))
         \o toLowerCase(SubSeq(str, 2, Len(str)))

\* The condition of the while loop of normalizePairsEN.
EndPair(str) ==
  /\ Len(str) > 1
  /\ SubSeq(str, 1, 1) \in DOMAIN pairs
  /\ pairs[SubSeq(str, 1, 1)] = SubSeq(str, Len(str), Len(str))

\* The while loop of normalizePairsEN.
RECURSIVE stripPairs(_)
stripPairs(str) == IF EndPair(str) THEN stripPairs(sliceInner(str)) ELSE str

\* normalizePairsEN of a string.
normalizePairsEN(str) ==
  IF str = "" THEN "" ELSE stripPairs(Trim(toLowerCase(str)))

\* The two normalizers, by name.
Normalizers == {"normalizeBrackets", "normalizePairsEN"}

\* The strings a normalizer is given: every string of at most MaxText of its
\* characters.
NormInputs(name) ==
  LET chars == IF name = "normalizeBrackets" THEN BracketChars ELSE PairChars
  IN  {join(cs, "") : cs \in UNION {[1..n -> chars] : n \in 0..MaxText}}

\* The normalizer called name applied to str.
Normalize(name, str) ==
  IF name = "normalizeBrackets" THEN normalizeBrackets(str)
  ELSE normalizePairsEN(str)

\* The normalizer is applied to the argument given.
ApplyNormalizer ==
  /\ normCalls = 0
  /\ normResult' = Normalize(normalizer, normArg)
  /\ normCalls' = 1
  /\ UNCHANGED <<normalizer, normArg, nonNormVars>>

\* The normalizer is applied to the value it has returned.
ApplyAgain ==
  /\ normCalls = 1
  /\ normArg' = normResult
  /\ normResult' = Normalize(normalizer, normResult)
  /\ normCalls' = 2
  /\ UNCHANGED <<normalizer, nonNormVars>>

(* --------------------------- specifications --------------------------- *)

\* A freshly constructed process over an empty collection.
InitQueue ==
  /\ db = <<>>
  /\ clock = 0
  /\ proc = "listening"
  /\ isProcessing = FALSE
  /\ intervalId = Null
  /\ timers = 0
  /\ call = [s \in Calls |-> IdleCall]
  /\ escaped = FALSE
  /\ storeErrors = 0
  /\ restarts = 0
  /\ lastCall = "none"
  /\ lastStartedAt = 0
  /\ renders = <<>>

\* No generateSpiral call is under way.
NoLayout ==
  /\ input = [type |-> "undefined", value |-> ""]
  /\ words = <<>>
  /\ result = <<>>
  /\ direction = 0
  /\ layoutPc = "idle"
  /\ output = ""

\* No request has been answered.
NoExchange ==
  http = [route |-> "none", req |-> [type |-> "undefined", value |-> ""],
          disk |-> Unread, res |-> NoResponse]

\* A page loaded for the first time: nothing stored, nothing shown.
NoClient ==
  /\ storage = EmptyStorage
  /\ browserTime = 0
  /\ page = HiddenPage
  /\ monitors = {}
  /\ checked = [jobId |-> Null, attempts |-> 0, outcome |-> Null]
  /\ lastSubmitAt = 0
  /\ reloads = 0

\* No normalizeBrackets call under way.
NoBrackets ==
  /\ bracketInput = [type |-> "undefined", value |-> ""]
  /\ bracketWord = ""
  /\ bracketPc = "idle"
  /\ normalized = ""

\* No normalizer applied.
NoNormalizer ==
  /\ normalizer = "none"
  /\ normArg = ""
  /\ normResult = ""
  /\ normCalls = 0

\* No align call, a freshly loaded page, no normalizeBrackets call and no
\* normalizer applied.
NoSide ==
  /\ block = <<>>
  /\ aligns = <<>>
  /\ NoClient
  /\ NoBrackets
  /\ NoNormalizer

Init == InitQueue /\ NoLayout /\ NoExchange /\ peer = PeerOff /\ NoSide

Next ==
  \/ Submit
  \/ SubmitStoreError
  \/ ServerListen
  \/ ResumeFindNone
  \/ ResumeFindSome
  \/ ResumeFindFail
  \/ ResumeUpdateManyOK
  \/ ResumeUpdateManyFail
  \/ Restart
  \/ TimerTick
  \/ \E s \in Calls : FindOneNone(s)
  \/ \E s \in Calls : FindOneFound(s)
  \/ \E s \in Calls : FindOneFail(s)
  \/ \E s \in Calls : UpdateProcessingOK(s)
  \/ \E s \in Calls : UpdateProcessingFail(s)
  \/ \E s \in Calls : RenderResolve(s)
  \/ \E s \in Calls : RenderReject(s)
  \/ \E s \in Calls : UpdateCompletedOK(s)
  \/ \E s \in Calls : UpdateCompletedFail(s)
  \/ \E s \in Calls : UpdateFailedOK(s)
  \/ \E s \in Calls : UpdateFailedFail(s)

Spec == Init /\ [][Next]_vars

\* The steps of a run in which no job-store operation rejects and the
\* process is not restarted.
NextOK ==
  \/ Submit
  \/ ServerListen
  \/ ResumeFindNone
  \/ TimerTick
  \/ \E s \in Calls : FindOneNone(s)
  \/ \E s \in Calls : FindOneFound(s)
  \/ \E s \in Calls : UpdateProcessingOK(s)
  \/ \E s \in Calls : RenderResolve(s)
  \/ \E s \in Calls : RenderReject(s)
  \/ \E s \in Calls : UpdateCompletedOK(s)
  \/ \E s \in Calls : UpdateFailedOK(s)

\* The timer keeps firing, every awaited job-store operation settles and
\* every render reports an outcome.
Fairness ==
  /\ WF_vars(ServerListen)
  /\ WF_vars(ResumeFindNone \/ ResumeFindSome)
  /\ WF_vars(ResumeUpdateManyOK)
  /\ WF_vars(TimerTick)
  /\ \A s \in Calls :
       /\ WF_vars(FindOneNone(s) \/ FindOneFound(s))
       /\ WF_vars(UpdateProcessingOK(s))
       /\ WF_vars(RenderResolve(s) \/ RenderReject(s))
       /\ WF_vars(UpdateCompletedOK(s))
       /\ WF_vars(UpdateFailedOK(s))

\* Runs without job-store errors or restarts, under Fairness.
SpecLive == Init /\ [][NextOK]_vars /\ Fairness

\* The steps of one process: job-store operations may reject (within the
\* error budget), the process is not restarted.
NextRun ==
  \/ Submit
  \/ SubmitStoreError
  \/ ServerListen
  \/ ResumeFindNone
  \/ ResumeFindFail
  \/ TimerTick
  \/ \E s \in Calls : FindOneNone(s)
  \/ \E s \in Calls : FindOneFound(s)
  \/ \E s \in Calls : FindOneFail(s)
  \/ \E s \in Calls : UpdateProcessingOK(s)
  \/ \E s \in Calls : UpdateProcessingFail(s)
  \/ \E s \in Calls : RenderResolve(s)
  \/ \E s \in Calls : RenderReject(s)
  \/ \E s \in Calls : UpdateCompletedOK(s)
  \/ \E s \in Calls : UpdateCompletedFail(s)
  \/ \E s \in Calls : UpdateFailedOK(s)
  \/ \E s \in Calls : UpdateFailedFail(s)

\* One process with a bounded number of job-store errors, under Fairness.
SpecFair == Init /\ [][NextRun]_vars /\ Fairness

\* The steps of runs in which no job-store operation rejects; the process may
\* be restarted.
NextRecovery ==
  \/ NextOK
  \/ ResumeFindSome
  \/ ResumeUpdateManyOK
  \/ Restart

\* The steps of a process whose processor is started and stopped at any
\* time; no job-store operation rejects.
NextStartStop ==
  \/ NextOK
  \/ StartCall
  \/ StopCall

\* start() and stop() called at any time on the running processor, under
\* Fairness.
SpecStartStop == Init /\ [][NextStartStop]_vars /\ Fairness

\* Restarts over a job store that accepts every operation, under Fairness.
SpecRecovery == Init /\ [][NextRecovery]_vars /\ Fairness

\* The steps of the started scheduler over a job store that accepts every
\* operation; the process is not restarted.
NextScheduler ==
  \/ ServerListen
  \/ ResumeFindNone
  \/ TimerTick
  \/ \E s \in Calls : FindOneNone(s)
  \/ \E s \in Calls : FindOneFound(s)
  \/ \E s \in Calls : UpdateProcessingOK(s)
  \/ \E s \in Calls : RenderResolve(s)
  \/ \E s \in Calls : RenderReject(s)
  \/ \E s \in Calls : UpdateCompletedOK(s)
  \/ \E s \in Calls : UpdateFailedOK(s)

NextGenerate ==
  \/ PostGenerate
  \/ PostGenerateStoreError
  \/ NextScheduler

\* POST /generate, every request answered, next to the running scheduler.
SpecGenerate == Init /\ [][NextGenerate]_vars

NextStatus ==
  \/ Submit
  \/ GetStatus
  \/ GetStatusStoreError
  \/ NextScheduler

\* GET /status/:jobId next to submissions and the running scheduler.
SpecStatus == Init /\ [][NextStatus]_vars

NextDownload ==
  \/ Submit
  \/ GetDownload
  \/ GetDownloadStoreError
  \/ NextScheduler

\* GET /download/:jobId next to submissions and the running scheduler.
SpecDownload == Init /\ [][NextDownload]_vars

NextTwo ==
  \/ Submit
  \/ NextScheduler
  \/ PeerStart
  \/ PeerTimerTick
  \/ PeerFindOneNone
  \/ PeerFindOneFound
  \/ PeerUpdateProcessingOK
  \/ PeerRenderResolve
  \/ PeerRenderReject
  \/ PeerUpdateFinalOK

\* The server's QueueProcessor and, once started, a second instance on the
\* same collection; every job-store operation is accepted.
SpecTwo == Init /\ [][NextTwo]_vars

\* A generateSpiral call on one of the Inputs.
InitLayout ==
  /\ InitQueue
  /\ input \in Inputs
  /\ words = <<>>
  /\ result = <<>>
  /\ direction = 0
  /\ layoutPc = "called"
  /\ output = ""
  /\ NoExchange
  /\ peer = PeerOff
  /\ NoSide

NextLayout ==
  \/ GenerateSpiral
  \/ Top
  \/ Right
  \/ Bottom
  \/ Left
  \/ SpiralReturn

\* The layout engine alone: one call per behaviour.
SpecLayout == InitLayout /\ [][NextLayout]_vars

InitAlign ==
  /\ InitQueue
  /\ NoLayout
  /\ NoExchange
  /\ peer = PeerOff
  /\ block \in Blocks
  /\ aligns = <<>>
  /\ NoClient
  /\ NoBrackets
  /\ NoNormalizer

NextAlign == Align

InitBrackets ==
  /\ InitQueue
  /\ NoLayout
  /\ NoExchange
  /\ peer = PeerOff
  /\ block = <<>>
  /\ aligns = <<>>
  /\ NoClient
  /\ bracketInput \in BracketInputs
  /\ bracketWord = ""
  /\ bracketPc = "called"
  /\ normalized = ""
  /\ NoNormalizer

InitNormalizers ==
  /\ InitQueue
  /\ NoLayout
  /\ NoExchange
  /\ peer = PeerOff
  /\ block = <<>>
  /\ aligns = <<>>
  /\ NoClient
  /\ NoBrackets
  /\ normalizer \in Normalizers
  /\ normArg \in NormInputs(normalizer)
  /\ normResult = ""
  /\ normCalls = 0

NextNormalizers ==
  \/ ApplyNormalizer
  \/ ApplyAgain

\* A normalizer applied to a string and then to the value it returned.
SpecNormalizers == InitNormalizers /\ [][NextNormalizers]_vars

NextBrackets ==
  \/ NormalizeBrackets
  \/ StripOuter
  \/ BracketsReturn

\* normalizeBrackets alone: one call per behaviour.
SpecBrackets == InitBrackets /\ [][NextBrackets]_vars

NextClient ==
  \/ GenerateSpiralPDF
  \/ \E m \in Monitors : CheckJobStatus(m)
  \/ Reload
  \/ TimePasses
  \/ NextScheduler

\* One browser page next to the running scheduler; every request of the page
\* is answered and the job store accepts every operation.
SpecClient == Init /\ [][NextClient]_vars

NextMonitor ==
  \/ GenerateSpiralPDF
  \/ \E m \in Monitors : CheckJobStatus(m)
  \/ \E m \in Monitors, error \in StatusErrors : CheckJobStatusError(m, error)
  \/ Reload
  \/ NextScheduler

\* One browser page next to the running scheduler; a status request of a
\* monitoring loop is answered or throws.
SpecMonitor == Init /\ [][NextMonitor]_vars

\* align alone: successive calls on a block of lines of any lengths.
SpecAlign == InitAlign /\ [][NextAlign]_vars

TypeOK ==
  /\ \A j \in JobIds : db[j].status \in Statuses
  /\ proc \in {"listening", "resume_find", "resume_update", "running"}
  /\ isProcessing \in BOOLEAN
  /\ intervalId \in {Null, Timer}
  /\ direction \in 0..3
  /\ layoutPc \in {"idle", "called", "loop", "returned"}
  /\ http.route \in {"none", "generate", "status", "download"}
  /\ http.res.code \in {0, 200, 201, 400, 404, 500}
  /\ peer.isProcessing \in BOOLEAN

(* ------------------------------- claims ------------------------------- *)

RendersInFlight == {s \in Calls : call[s].pc = "render"}

Terminal == {"completed", "failed"}

\* C1: at most one generatePDFAsync call is in flight at any instant, and a
\* processNextJob call made while a render is in flight is a no-op: no
\* invocation gets past the guard (so no record is read and no render is
\* started), and the skipped call leaves the store, the invocations and the
\* flag as they were.
C1_SingleFlight ==
  /\ [](Cardinality(RendersInFlight) <= 1)
  /\ [][RendersInFlight # {} =>
          /\ \A s \in Calls : call[s].pc = "idle" => call'[s].pc = "idle"
          /\ (lastCall' = "skipped" /\ lastCall # "skipped") =>
                UNCHANGED <<db, call, isProcessing, renders>>]_vars

\* C1 witness: a processNextJob call was skipped while a render is in flight.
C1_Witness ==
  /\ RendersInFlight # {}
  /\ lastCall = "skipped"

\* C2: every change of a record's stored status is pending->processing,
\* processing->completed or processing->failed, or, only in the updateMany of
\* the start-up recovery routine, processing->pending.
C2_Transitions ==
  [][\A j \in JobIds :
       db'[j].status # db[j].status =>
         \/ <<db[j].status, db'[j].status>> \in
              {<<"pending", "processing">>, <<"processing", "completed">>,
               <<"processing", "failed">>}
         \/ /\ <<db[j].status, db'[j].status>> = <<"processing", "pending">>
            /\ proc = "resume_update"]_vars

\* C2 witness: one record went pending->processing->failed, another was
\* started and then reset to pending by the recovery routine.
C2_Witness ==
  \E j, k \in JobIds :
    /\ db[j].status = "failed"
    /\ db[k].status = "pending" /\ renders[k] > 0

\* C3 (as claimed): in every state reached through ticks, submissions, render
\* outcomes and job-store errors of one scheduler process, at most one record
\* has status processing.
C3_AtMostOneProcessing ==
  restarts = 0 =>
    Cardinality({j \in JobIds : db[j].status = "processing"}) <= 1

\* C4: whenever a tick moves a record to processing, that record has the
\* smallest createdAt among the records that were pending when the tick
\* queried the store, and the records one process moves to processing follow
\* each other in non-decreasing createdAt order.
C4_Fifo ==
  [][\A s \in Calls :
       (call[s].pc = "update_processing" /\ call'[s].pc = "render") =>
         LET j == call[s].doc.jobId
         IN  /\ j \in call[s].seen
             /\ \A k \in call[s].seen : db[j].createdAt <= db[k].createdAt
             /\ lastStartedAt <= db[j].createdAt]_vars

\* C4 witness: a record was moved to processing by a tick that saw it
\* pending together with a record created later.
C4_Witness ==
  \E s \in Calls :
    /\ call[s].pc = "render"
    /\ \E k \in call[s].seen :
         db[call[s].doc.jobId].createdAt < db[k].createdAt

\* C5 (as claimed): a completed record has a filePath and no errorMessage, a
\* failed record an errorMessage and no filePath, a pending or processing
\* record neither.
C5_ResultFields ==
  \A j \in JobIds :
    /\ db[j].status = "completed" =>
         db[j].filePath # Null /\ db[j].errorMessage = Null
    /\ db[j].status = "failed" =>
         db[j].errorMessage # Null /\ db[j].filePath = Null
    /\ db[j].status \in {"pending", "processing"} =>
         db[j].filePath = Null /\ db[j].errorMessage = Null

\* C6: once a record is completed or failed its stored record never changes
\* again, no tick loads it and no render is started for it, on any later
\* tick or after any restart.
C6_TerminalIsFinal ==
  [][\A j \in JobIds :
       db[j].status \in Terminal =>
         /\ db'[j] = db[j]
         /\ renders'[j] = renders[j]
         /\ \A s \in Calls : call'[s].doc.jobId = j => call[s].doc.jobId = j]_vars

\* C6 witness: after a restart the scheduler polled again, found nothing to
\* do, and a failed record is still there.
C6_Witness ==
  /\ \E j \in JobIds : db[j].status = "failed"
  /\ restarts > 0
  /\ proc = "running"
  /\ lastCall = "entered"
  /\ \A s \in Calls : call[s].pc = "idle"

\* C7: when ticks keep firing, every job-store operation succeeds and every
\* render reports an outcome, every pending record eventually is completed
\* with a filePath or failed with an errorMessage, and a record enters a
\* terminal status only from processing.
C7_EveryJobSettles ==
  /\ \A j \in 1..MaxJobs :
       (j \in JobIds /\ db[j].status = "pending") ~>
         (/\ j \in JobIds
          /\ \/ db[j].status = "completed" /\ db[j].filePath # Null
             \/ db[j].status = "failed" /\ db[j].errorMessage # Null)
  /\ [][\A j \in JobIds :
          (db'[j].status \in Terminal /\ db[j].status \notin Terminal) =>
            db[j].status = "processing"]_vars

\* C7 witness: one record is completed with its artifact, another is failed
\* with its error text.
C7_Witness ==
  \E j, k \in JobIds :
    /\ db[j].status = "completed" /\ db[j].filePath = Filename(j)
    /\ db[k].status = "failed" /\ db[k].errorMessage # Null

\* C8: when the render of a job was rejected (failure message, error event
\* or non-zero exit), the status save the tick then makes leaves the record
\* failed, with errorMessage 'PDF generation failed: ' followed by the
\* cause and a null filePath.
C8_RenderFailureRecorded ==
  [][\A s \in Calls :
       (/\ call[s].renderErr # Null
        /\ db'[call[s].doc.jobId] # db[call[s].doc.jobId]) =>
         LET rec == db'[call[s].doc.jobId]
         IN  /\ rec.status = "failed"
             /\ rec.errorMessage =
                  "PDF generation failed: " \o call[s].renderErr
             /\ rec.filePath = Null]_vars

\* C8 witness: the record of a job whose worker exited with a non-zero code.
C8_Witness ==
  \E j \in JobIds :
    /\ db[j].status = "failed"
    /\ db[j].errorMessage =
         "PDF generation failed: Worker stopped with exit code 1"

\* C9 (as claimed): when a tick in which a job-store operation failed ends,
\* the stored status of the record it handled is what it was before the
\* tick (pending).
C9_StoreErrorKeepsStatus ==
  [][\A s \in Calls :
       (/\ call[s].pc # "idle" /\ call'[s].pc = "idle"
        /\ restarts' = restarts
        /\ call[s].doc.jobId # 0
        /\ call[s].storeErr \/ storeErrors' # storeErrors) =>
         db'[call[s].doc.jobId].status = "pending"]_vars

\* C10: no exception leaves processNextJob; whenever no invocation is running
\* the flag is clear and the timer is set, so the next tick polls again; and
\* under Fairness, with finitely many job-store errors, every pending record
\* is picked up.
C10_LoopSurvives ==
  /\ [](~escaped)
  /\ []((proc = "running" /\ \A s \in Calls : call[s].pc = "idle") =>
          (~isProcessing /\ intervalId # Null))
  /\ \A j \in 1..MaxJobs :
       (j \in JobIds /\ db[j].status = "pending") ~>
         (j \in JobIds /\ db[j].status # "pending")

\* C10 witness: a tick of this process ended on a job-store error (it left
\* its record in processing) and a later tick is rendering another job.
C10_Witness ==
  /\ restarts = 0
  /\ \E j \in JobIds :
       /\ db[j].status = "processing"
       /\ \A s \in Calls : call[s].doc.jobId # j
  /\ \E s \in Calls : call[s].pc = "render"

(* ------------------------- claims: the layout ------------------------- *)

\* The lines of a text.
Lines(text) == split(text, "\n")

\* The call returned a layout (the input had words).
Returned == layoutPc = "returned" /\ ~NoWords(input)

\* The original statement of C19: every line of the returned text has the
\* same length.
C19_Rectangular ==
  Returned =>
    \A i, k \in 1..Len(Lines(output)) :
      Len(Lines(output)[i]) = Len(Lines(output)[k])

\* C19: the lines of the returned text before the last two (the block) all
\* have one length W; the last two lines, the snail head, are longer: W + 10
\* and W + 12 characters.
C19_BlockRectangular ==
  Returned =>
    LET L == Lines(output)
        n == Len(L)
    IN  /\ n >= 3
        /\ \A i \in 1..(n - 2) : Len(L[i]) = Len(L[1])
        /\ Len(L[n - 1]) = Len(L[1]) + 10
        /\ Len(L[n]) = Len(L[1]) + 12

\* A layout whose block grew on all four sides has been returned.
C19_Witness ==
  /\ Returned
  /\ Len(ParseWords(input.value)) = MaxWords
  /\ Len(Lines(output)) >= 7

\* The characters between tokens.
Separators == {" ", "|", "\n"}

CharAt(text, i) == SubSeq(text, i, i)

\* The positions where a token (a maximal run of non-separators) starts.
TokenStarts(text) ==
  {i \in 1..Len(text) :
     /\ CharAt(text, i) \notin Separators
     /\ i = 1 \/ CharAt(text, i - 1) \in Separators}

\* The token starting at position i.
TokenAt(text, i) ==
  SubSeq(text, i,
         CHOOSE e \in i..Len(text) :
           /\ \A k \in i..e : CharAt(text, k) \notin Separators
           /\ e = Len(text) \/ CharAt(text, e + 1) \in Separators)

\* The tokens the layout draws itself: the marker, the snail head and the
\* separator rules (runs of dashes).
Drawn(token) ==
  \/ token \in {">>>", "\\/", "_____(oo)"}
  \/ CharAt(token, 1) = "-"

\* The positions of the word tokens of a text.
WordStarts(text) == {i \in TokenStarts(text) : ~Drawn(TokenAt(text, i))}

\* How often word w is a token of the text, and how often it is in a list.
Placed(text, w) == Cardinality({i \in WordStarts(text) : TokenAt(text, i) = w})

Given(ws, w) == Cardinality({i \in 1..Len(ws) : ws[i] = w})

\* C20: the word tokens of the returned layout are the input words, each as
\* often as the input has it; an input without words returns no token.
C20_EveryWordOnce ==
  layoutPc = "returned" =>
    IF NoWords(input)
    THEN WordStarts(output) = {}
    ELSE /\ Cardinality(WordStarts(output)) = Len(ParseWords(input.value))
         /\ \A w \in LayoutWords :
              Placed(output, w) = Given(ParseWords(input.value), w)

\* A layout of MaxWords words with a repeated word, all four phases applied.
C20_Witness ==
  /\ Returned
  /\ Len(ParseWords(input.value)) = MaxWords
  /\ direction = 2
  /\ \E w \in LayoutWords : Placed(output, w) >= 2

(* ------------------------- claims: recovery --------------------------- *)

\* C11: in every step of resumeProcessingJobs no record is added or removed
\* and a record that is not processing is left as it is; the step in which
\* the job store accepts the updateMany turns every processing record into a
\* pending one with all its other fields kept; and when the find resolves
\* with no record, none is processing.  When the routine returns without a
\* job-store rejection, every record that was processing is pending.
C11_ResetsProcessing ==
  [][(proc # proc' /\ proc' # "listening") =>
       /\ DOMAIN db' = DOMAIN db
       /\ \A j \in JobIds :
            IF /\ proc = "resume_update"
               /\ storeErrors' = storeErrors
               /\ db[j].status = "processing"
            THEN db'[j] = [db[j] EXCEPT !.status = "pending"]
            ELSE db'[j] = db[j]
       /\ (proc = "resume_find" /\ proc' = "running"
           /\ storeErrors' = storeErrors)
          => \A j \in JobIds : db[j].status # "processing"]_vars

\* After a restart the recovery has returned: a job rendered by the previous
\* process is pending again, next to a record in a final status.
C11_Witness ==
  /\ restarts = 1
  /\ proc = "running"
  /\ \E j \in JobIds : db[j].status = "pending" /\ renders[j] = 1
  /\ \E k \in JobIds : db[k].status \in Terminal

C13_HungRenderStalls ==
  [][(\E s \in Calls : call[s].pc = "render" /\ call'[s].pc = "render") =>
       /\ \A j \in JobIds : db'[j] = db[j] /\ renders'[j] = renders[j]
       /\ isProcessing /\ isProcessing'
       /\ call' = call
       /\ lastCall' \in {lastCall, "skipped"}]_vars

\* A render is in flight, a later tick was skipped and another record waits.
C13_Witness ==
  /\ \E s \in Calls : call[s].pc = "render"
  /\ lastCall = "skipped"
  /\ \E j \in JobIds : db[j].status = "pending"

(* ------------------------- claims: the artifact ----------------------- *)

\* The original statement of C15: the render of a job is started at most
\* once, restarts included.
C15_RenderedAtMostOnce ==
  \A j \in JobIds : renders[j] <= 1

\* C15: a render is started only for a record stored as pending (which the
\* same step stores as processing), one render at a time, and the renders of
\* a job number at most one more than the restarts: at most one when the
\* process is never restarted.
C15_RenderedOncePerRun ==
  /\ [](\A j \in JobIds : renders[j] <= restarts + 1)
  /\ [][\A j \in JobIds :
          renders'[j] # renders[j] =>
            /\ renders'[j] = renders[j] + 1
            /\ db[j].status = "pending"
            /\ db'[j].status = "processing"]_vars

\* After a restart the interrupted job is being rendered a second time.
C15_Witness ==
  \E s \in Calls :
    /\ call[s].pc = "render"
    /\ renders[call[s].doc.jobId] = 2
    /\ db[call[s].doc.jobId].status = "processing"

(* ------------------------- claims: the routes ------------------------- *)

\* The content of a request body is missing, not a string, or blank after
\* trimming.
InvalidContent(body) == body.type # "string" \/ Trim(body.value) = ""

\* The step answers a request to the given route.
Answers(route) == http' # http /\ http'.route = route

\* C16: a submission with invalid content is answered 400 and leaves the
\* collection as it is; a record is created only by a submission with valid
\* content that is answered 201, which appends exactly one record, pending,
\* holding the trimmed content, under the id the response names; a submission
\* answered with an error creates nothing; and no stored content is blank.
C16_OnlyValidSubmissionsStored ==
  /\ [](\A j \in JobIds :
          db[j].content # "" /\ Trim(db[j].content) = db[j].content)
  /\ [][/\ Answers("generate") =>
             /\ http'.res.code \in {201, 400, 500}
             /\ InvalidContent(http'.req) =>
                  http'.res.code = 400 /\ db' = db
             /\ http'.res.code # 201 => db' = db
             /\ http'.res.code = 201 => Len(db') = Len(db) + 1
        /\ db' # db /\ Len(db') # Len(db) =>
             /\ Answers("generate")
             /\ http'.res.code = 201
             /\ ~InvalidContent(http'.req)
             /\ db' = Append(db, NewJob(Trim(http'.req.value), clock'))
             /\ http'.res.jobId = IdOf(Len(db'))]_vars

\* A submission with spaces around its content has been accepted and its
\* record is the newest of two, still pending.
C16_Witness ==
  /\ http.route = "generate"
  /\ http.res.code = 201
  /\ Len(db) = 2
  /\ http.res.jobId = IdOf(2)
  /\ db[2].status = "pending"
  /\ db[2].content # http.req.value

\* The text of the not-ready error for a record.
NotReadyError(rec) ==
  "PDF is not ready for download. Current status: " \o rec.status

\* C17: whatever is on disk, a download request for a record that is not
\* completed gets the 400 not-ready error and no file; a file is handed to
\* res.sendFile only for a record that is completed, has its filePath set and
\* whose file is on disk, and it is that record's file; a request that finds
\* no record gets no file.  Every response the route sends is one of these or
\* the 500 of its catch.
C17_DownloadOnlyWhenCompleted ==
  /\ [](\A param \in Params, disk \in Disk :
          LET res == DownloadResponse(param, disk)
              js  == {j \in JobIds : IdOf(j) = Trim(param)}
          IN  /\ js = {} => res.file = Absent /\ res.code \in {400, 404}
              /\ \A j \in js :
                   /\ db[j].status # "completed" =>
                        /\ res.code = 400
                        /\ res.error = NotReadyError(db[j])
                        /\ res.file = Absent
                   /\ res.file # Absent =>
                        /\ db[j].status = "completed"
                        /\ db[j].filePath \notin {Null, ""}
                        /\ disk = "readable"
                        /\ res.file = db[j].filePath
                        /\ res.code = 200)
  /\ [][Answers("download") =>
          \/ http'.res = DownloadResponse(http'.req.value, http'.disk)
          \/ http'.res.code = 500 /\ http'.res.file = Absent]_vars

\* The file of the completed job 1 has been sent in answer to a download
\* request.
C17_Witness ==
  /\ http.route = "download"
  /\ http.res.code = 200
  /\ http.res.file = Filename(1)
  /\ db[1].status = "completed"

\* C18: a status request whose id no record has is answered 404 'Job not
\* found' and carries no jobId and no status; a request for the id of a
\* record is answered 200 with that id and the status the record has in the
\* store at that moment (ready exactly when it is completed).  Every response
\* the route sends is one of these or the 500 of its catch.
C18_StatusOfKnownIdsOnly ==
  /\ [](\A param \in Params :
          LET res == StatusResponse(param)
              js  == {j \in JobIds : IdOf(j) = Trim(param)}
          IN  /\ (Trim(param) # "" /\ js = {}) =>
                   /\ res.code = 404
                   /\ res.error = "Job not found"
                   /\ res.jobId = Absent
                   /\ res.status = Absent
              /\ \A j \in js :
                   /\ res.code = 200
                   /\ res.jobId = IdOf(j)
                   /\ res.status = db[j].status
                   /\ res.ready <=> db[j].status = "completed"
                   /\ res.error = Absent)
  /\ [][Answers("status") =>
          \/ http'.res = StatusResponse(http'.req.value)
          \/ http'.res.code = 500 /\ http'.res.status = Absent]_vars

\* A status request for an unknown id was answered 404 while a record of
\* another id was processing.
C18_Witness ==
  /\ http.route = "status"
  /\ http.req.value = "none"
  /\ http.res.code = 404
  /\ \E j \in JobIds : db[j].status = "processing"

(* ------------------------- claims: two schedulers --------------------- *)

\* The jobs whose render is in flight in both instances at once.
DoubleProcessed ==
  {j \in JobIds :
     /\ peer.call.pc = "render" /\ peer.call.doc.jobId = j
     /\ \E s \in Calls : call[s].pc = "render" /\ call[s].doc.jobId = j}

\* C14 (single instance): as long as no second instance has been started, no
\* record is held by two invocations, no job is rendered twice and at most
\* one render is in flight.
C14_SingleInstanceNoDouble ==
  ~peer.on =>
    /\ \A j \in JobIds : renders[j] <= 1
    /\ \A s, t \in Calls :
         (s # t /\ call[s].pc # "idle" /\ call[t].pc # "idle") =>
           call[s].doc.jobId # call[t].doc.jobId
    /\ Cardinality(RendersInFlight) <= 1

\* C14 (two instances): both instances read the same oldest pending record
\* before either stored 'processing', and both are rendering it.
C14_Witness ==
  /\ peer.on
  /\ DoubleProcessed # {}
  /\ \E s \in Calls :
       /\ call[s].pc = "render"
       /\ call[s].doc.jobId \in DoubleProcessed
       /\ call[s].doc.jobId \in call[s].seen
       /\ renders[call[s].doc.jobId] = 2

(* ------------------------- order of the phases ------------------------ *)

\* sub occurs in str.
Contains(str, sub) ==
  \E i \in 1..(Len(str) - Len(sub) + 1) : SubSeq(str, i, i + Len(sub) - 1) = sub

\* The position in the block of the line that carries the marker.
MarkerIndex(lines) == CHOOSE i \in 1..Len(lines) : Contains(lines[i], ">>> | ")

\* An iteration of the loop of spiral.
PhaseStep == layoutPc = "loop" /\ layoutPc' = "loop" /\ result' # result

\* The iteration put a separator and a row after the last line of the block.
RowBelow ==
  /\ Len(result') = Len(result) + 2
  /\ MarkerIndex(result') = MarkerIndex(result)

\* The iteration put a row and a separator before the first line of the block.
RowAbove ==
  /\ Len(result') = Len(result) + 2
  /\ MarkerIndex(result') = MarkerIndex(result) + 2

\* C21 as stated: the phases follow one another in the order TOP, RIGHT,
\* BOTTOM, LEFT, and the first phase after the marker line is TOP, which puts
\* its row after the last line of the block.
C21_FirstPhaseTop ==
  [][PhaseStep =>
       /\ direction' = (direction + 1) % 4
       /\ Len(result) = 1 => direction = 0 /\ RowBelow]_vars

\* C21: the phases follow one another in the cyclic order TOP (0), RIGHT (1),
\* BOTTOM (2), LEFT (3); TOP puts its row after the last line, BOTTOM before
\* the first line, RIGHT and LEFT add no line; and the first phase after the
\* marker line is BOTTOM.
C21_CycleFromBottom ==
  [][PhaseStep =>
       /\ direction' = (direction + 1) % 4
       /\ direction = 0 => RowBelow
       /\ direction = 2 => RowAbove
       /\ direction \in {1, 3} => Len(result') = Len(result)
       /\ Len(result) = 1 => direction = 2]_vars

\* The four phases have run once each and the cycle is back at BOTTOM.
C21_Witness ==
  /\ layoutPc = "loop"
  /\ direction = 2
  /\ Len(result) = 5
  /\ MarkerIndex(result) = 3

\* str ends with suffix.
EndsWith(str, suffix) ==
  /\ Len(suffix) <= Len(str)
  /\ SubSeq(str, Len(str) - Len(suffix) + 1, Len(str)) = suffix

\* str begins with prefix.
StartsWith(str, prefix) ==
  /\ Len(prefix) <= Len(str)
  /\ SubSeq(str, 1, Len(prefix)) = prefix

\* On the page: a row and its separator appear above the block, whose lines
\* keep their text and their right edge.
AddsRowAbove ==
  /\ Len(result') = Len(result) + 2
  /\ \A i \in 1..Len(result) : EndsWith(result'[i + 2], result[i])

\* On the page: the lines keep their number and their text, and text is put in
\* front of some of them.
PrependsLeft ==
  /\ Len(result') = Len(result)
  /\ \A i \in 1..Len(result) : EndsWith(result'[i], result[i])

\* On the page: a separator and a row appear below the block, whose lines
\* keep their text and their left edge.
AddsRowBelow ==
  /\ Len(result') = Len(result) + 2
  /\ \A i \in 1..Len(result) : StartsWith(result'[i], result[i])

\* On the page: the lines keep their number and their text, and text is put
\* after some of them.
AppendsRight ==
  /\ Len(result') = Len(result)
  /\ \A i \in 1..Len(result) : StartsWith(result'[i], result[i])

\* The number of growth steps taken so far, modulo 4.
StepsTaken == (direction + 2) % 4

\* C22: on the page the first growth step adds a row above the marker line,
\* the next puts words on the left of existing lines, the next adds a row
\* below the block, the next puts words on the right of existing lines, and
\* the cycle repeats.
C22_PageOrder ==
  [][PhaseStep =>
       /\ Len(result) = 1 => StepsTaken = 0
       /\ StepsTaken = 0 => AddsRowAbove
       /\ StepsTaken = 1 => PrependsLeft
       /\ StepsTaken = 2 => AddsRowBelow
       /\ StepsTaken = 3 => AppendsRight
       /\ StepsTaken' = (StepsTaken + 1) % 4]_vars

\* A layout returned after one full cycle of four growth steps.
C22_Witness ==
  /\ layoutPc = "returned"
  /\ direction = 2
  /\ Len(result) = 7
  /\ MarkerIndex(result) = 3

(* ------------------------------ new rows ------------------------------ *)

\* C23 as stated: a row-building phase (TOP or BOTTOM) gives the new row at
\* least two words unless the word list runs out first.
C23_RowsOfTwoWords ==
  [][PhaseStep /\ direction \in {0, 2} =>
       \/ Len(words) - Len(words') >= 2
       \/ Len(words') = 0]_vars

(* --------------------------- one-word input --------------------------- *)

\* The call returned the layout of an input with exactly one word.
OneWord == Returned /\ Len(ParseWords(input.value)) = 1

\* The first n characters of str are spaces.
Indented(str, n) ==
  /\ Len(str) >= n
  /\ \A i \in 1..n : SubSeq(str, i, i) = " "

\* C24 as stated: for a one-word input the output is the marker line followed
\* by the two ornament lines, each padded on the left so that it ends at the
\* last column of the marker line.
C24_OrnamentFlushRight ==
  OneWord =>
    LET lines == Lines(output)
        W     == Len(lines[1])
    IN  /\ Len(lines) = 3
        /\ lines[1] = ">>> | " \o Head(ParseWords(input.value))
        /\ Len(lines[2]) = W /\ EndsWith(lines[2], "\\/")
        /\ Len(lines[3]) = W /\ EndsWith(lines[3], "(oo)")

\* C24: for a one-word input the output is the marker line followed by the
\* two ornament lines, each indented by the width of the marker line plus
\* three, so that the ornament stands to the right of the marker line.
C24_OrnamentBeside ==
  OneWord =>
    LET lines == Lines(output)
        W     == Len(lines[1])
    IN  /\ Len(lines) = 3
        /\ lines[1] = ">>> | " \o Head(ParseWords(input.value))
        /\ Len(lines[2]) = W + 10
        /\ Indented(lines[2], W + 3) /\ EndsWith(lines[2], "     \\/")
        /\ Len(lines[3]) = W + 12
        /\ Indented(lines[3], W + 3) /\ EndsWith(lines[3], "_____(oo)")

\* The layout of the one-word input 'dddd' has been returned.
C24_Witness ==
  /\ OneWord
  /\ input.value = "dddd"
  /\ Len(Lines(output)) = 3

(* ------------------------------ alignment ----------------------------- *)

\* A call of align.
AlignCall == aligns' # aligns

\* The lines of the block have equal lengths.
EqualLengths(lines) ==
  \A i, k \in 1..Len(lines) : Len(lines[i]) = Len(lines[k])

\* C25: align applied to the result of align returns that result, whatever
\* the two directions; a block of lines of equal length is returned unchanged;
\* and align keeps the number of lines and shortens no line.
C25_AlignIdempotent ==
  [][AlignCall =>
       /\ Len(aligns) >= 1 => block' = block
       /\ EqualLengths(block) => block' = block
       /\ Len(block') = Len(block)
       /\ \A i \in 1..Len(block) : Len(block'[i]) >= Len(block[i])]_vars

\* A ragged block aligned left and then right.
C25_Witness ==
  /\ aligns = <<"left", "right">>
  /\ block = <<"a   ", "ccc ", " bb ">>

(* ----------------------------- marker line ---------------------------- *)

\* The lines of a block that hold the start marker directly followed by word.
MarkerLines(lines, word) ==
  {i \in 1..Len(lines) : Contains(lines[i], ">>> | " \o word)}

\* C26: for an input with at least one word, the block holds the first word
\* directly after the start marker, on exactly one line, after every phase,
\* and so does the returned layout.
C26_MarkerThenFirstWord ==
  (layoutPc \in {"loop", "returned"} /\ ~NoWords(input)) =>
    /\ Cardinality(MarkerLines(result, Head(ParseWords(input.value)))) = 1
    /\ layoutPc = "returned" =>
         Contains(output, ">>> | " \o Head(ParseWords(input.value)))

\* A returned layout in which words were put both before and after the
\* marker line's text.
C26_Witness ==
  /\ Returned
  /\ Head(ParseWords(input.value)) = "dddd"
  /\ \E i \in MarkerLines(result, "dddd") :
       /\ StartsWith(result[i], "a |")
       /\ EndsWith(result[i], "| a")

(* ---------------------------- empty inputs ---------------------------- *)

\* The argument is not a string, or a string of commas and whitespace only
\* (the empty string included).
Blank(arg) ==
  \/ arg.type # "string"
  \/ \A i \in 1..Len(arg.value) : CharAt(arg.value, i) \in Whitespace \cup {","}

\* C27: generateSpiral returns the empty string when its argument is not a
\* string, is empty, or holds only commas and whitespace, and a non-empty
\* layout when the argument holds at least one non-blank word.
C27_EmptyIffNoWords ==
  layoutPc = "returned" => (output = "" <=> Blank(input))

\* The call on a string of commas and whitespace has returned.
C27_Witness ==
  /\ layoutPc = "returned"
  /\ input = [type |-> "string", value |-> " , ,\n"]
  /\ output = ""

(* ------------------------- the in-flight flag ------------------------- *)

\* Invocation s of processNextJob ends in this step of the running process.
TickEnds(s) ==
  /\ call[s].pc # "idle"
  /\ call'[s].pc = "idle"
  /\ restarts' = restarts

\* C30: a processNextJob call that goes past the guard sets isProcessing; the
\* flag is cleared when that call ends, whichever await it ends at (no pending
\* record, completed, failed, or an exception of the job store); and within a
\* process the flag is cleared by nothing else: a call skipped by the guard
\* leaves it set.
C30_FlagLifecycle ==
  [][/\ \A s \in Calls :
          /\ (call[s].pc = "idle" /\ call'[s].pc # "idle") => isProcessing'
          /\ TickEnds(s) => ~isProcessing'
     /\ (isProcessing /\ ~isProcessing' /\ restarts' = restarts) =>
          \E s \in Calls : TickEnds(s)
     /\ (lastCall' = "skipped" /\ lastCall # "skipped") =>
          isProcessing /\ isProcessing']_vars

\* A call was skipped while another was in flight, and that one has ended
\* since, after a rejected job-store operation and a completed job.
C30_Witness ==
  /\ lastCall = "skipped"
  /\ ~isProcessing
  /\ \A s \in Calls : call[s].pc = "idle"
  /\ storeErrors = 1
  /\ \E j \in JobIds : db[j].status = "completed"

(* ------------------------- session persistence ------------------------ *)

\* C28, for the job the page submitted last: when the page is loaded again
\* within 24 hours of that submission and the job is completed at that time,
\* the page shows the job with its download link, whatever happened to the
\* jobs submitted before it.
C28_CompletedJobRestored ==
  [][reloads' # reloads =>
       LET j == Len(db)
       IN  (/\ j >= 1
            /\ db[j].status = "completed"
            /\ browserTime - lastSubmitAt <= maxAge) =>
             /\ page'.jobId = IdOf(j)
             /\ page'.link = getDownloadURL(IdOf(j))]_vars

(* --------------------------- outer parentheses ------------------------ *)

\* The number of ch among the first n characters of str.
CountUpTo(str, ch, n) == Cardinality({i \in 1..n : CharAt(str, i) = ch})

\* str is balanced: no prefix closes more than it opens, and the whole string
\* opens as many as it closes.
Balanced(str) ==
  /\ \A n \in 0..Len(str) : CountUpTo(str, "(", n) >= CountUpTo(str, ")", n)
  /\ CountUpTo(str, "(", Len(str)) = CountUpTo(str, ")", Len(str))

\* str is '(' X ')' with X balanced.
Wrapped(str) ==
  /\ Len(str) >= 2
  /\ CharAt(str, 1) = "("
  /\ CharAt(str, Len(str)) = ")"
  /\ Balanced(SubSeq(str, 2, Len(str) - 1))

\* str without its k first and k last characters.
Inner(str, k) == SubSeq(str, k + 1, Len(str) - k)

\* C29: for a string argument the value returned by normalizeBrackets is
\* the trimmed argument without its k first and k last characters, where each
\* of the k removed pairs is '(' and ')' around a balanced string; the value
\* is not itself '(' X ')' with X balanced (k is maximal); what is kept is
\* kept unchanged. Any other argument returns ''.
C29_OuterPairsStripped ==
  bracketPc = "returned" =>
    IF bracketInput.type # "string"
    THEN normalized = ""
    ELSE LET t == Trim(bracketInput.value)
         IN  /\ \E k \in 0..Len(t) :
                  /\ normalized = Inner(t, k)
                  /\ \A i \in 0..(k - 1) : Wrapped(Inner(t, i))
             /\ ~Wrapped(normalized)

\* One outer pair was removed; the inner pair and the letter stay.
C29_Witness ==
  /\ bracketPc = "returned"
  /\ bracketInput.value = "(()a)"
  /\ normalized = "()a"

(* ------------------------- RIGHT and LEFT phases ---------------------- *)

\* Line i of the block got text in this step (padding apart).
Extended(i) == Trim(result'[i]) # Trim(result[i])

\* The words a step took from the list.
Taken == Len(words) - Len(words')

\* The smaller of two numbers.
Min(a, b) == IF a <= b THEN a ELSE b

\* C31 as stated: a RIGHT or LEFT phase extends only lines from the second
\* through the second-to-last line of the block.
C31_MiddleLinesOnly ==
  [][(PhaseStep /\ direction \in {1, 3}) =>
       \A i \in 1..Len(result) :
         Extended(i) => (2 <= i /\ i <= Len(result) - 1)]_vars

\* C31: a RIGHT phase appends '| word' to the lines from the third-to-last
\* up to the first, going upwards, and a LEFT phase prepends 'word |' to the
\* lines from the third down to the last, one word per line while words
\* remain; the two lines at the other end (the row and the separator of the
\* preceding row phase) and the lines the words did not reach are not extended.
C31_SkipsTheNewRow ==
  [][(PhaseStep /\ direction \in {1, 3}) =>
       LET n == Len(result)
       IN  /\ Taken = Min(Len(words), n - 2)
           /\ direction = 1 =>
                \A i \in 1..n :
                  IF n - 1 - Taken <= i /\ i <= n - 2
                  THEN StartsWith(result'[i],
                                  result[i] \o "| " \o words[n - 1 - i])
                  ELSE ~Extended(i)
           /\ direction = 3 =>
                \A i \in 1..n :
                  IF 3 <= i /\ i <= Taken + 2
                  THEN EndsWith(result'[i],
                                words[i - 2] \o " |" \o result[i])
                  ELSE ~Extended(i)]_vars

\* A RIGHT phase has extended the first line of a five-line block, after a
\* LEFT phase extended the last line of the three-line block.
C31_Witness ==
  /\ layoutPc = "loop"
  /\ direction = 2
  /\ Len(result) = 5
  /\ Contains(result[1], "| ")
  /\ StartsWith(result[3], "a |")

(* ------------------------- the width of a row ------------------------- *)

\* A TOP or BOTTOM iteration of the loop of spiral.
RowStep == PhaseStep /\ direction \in {0, 2}

\* The width a new row has to reach: the length of the line at the far end of
\* the block.
RowTarget ==
  IF direction = 0 THEN Len(result[1]) ELSE Len(result[Len(result)])

\* The blank prefix (TOP) or suffix (BOTTOM) of a new row: up to the first bar
\* of the line it is put after, or as long as what follows the last bar of
\* the line it is put before, plus one.
RowGap ==
  IF direction = 0
  THEN Len(split(result[Len(result)], "|")[1]) + 1
  ELSE LET parts == split(result[1], "|") IN Len(parts[Len(parts)]) + 1

\* The length of a row holding the gap and the first k words, joined by
\* single blanks.
RECURSIVE RowWidth(_)
RowWidth(k) ==
  IF k = 0 THEN RowGap ELSE RowWidth(k - 1) + 1 + Len(words[k])

\* C32 as stated: a new row never receives a third word.
C32_AtMostTwoWords ==
  [][RowStep => Taken <= 2]_vars

\* C32: a new row takes words one at a time as long as it is shorter than the
\* target width and words remain, whatever their number: the row ends with
\* the first word that makes it reach the target width, or with the last word
\* of the list; a row of short words holds three words or more.
C32_FilledToTarget ==
  [][RowStep =>
       /\ Taken >= 1
       /\ Taken = Len(words) \/ RowWidth(Taken) >= RowTarget
       /\ Taken >= 2 => RowWidth(Taken - 1) < RowTarget]_vars

\* A row of three words has been put below the block, and words remain.
C32_Witness ==
  /\ layoutPc = "loop"
  /\ direction = 1
  /\ Len(words) > 0
  /\ Contains(result[Len(result)], "dddd dddd a")

\* C23: a new row receives at least one word, and a row holding a single
\* word occurs when no words remain afterwards or when that word alone makes
\* the row reach the target width.
C23_AtLeastOneWord ==
  [][RowStep =>
       /\ Taken >= 1
       /\ Taken = 1 => (Len(words') = 0 \/ RowWidth(1) >= RowTarget)]_vars

\* The first row holds the single word 'dddd' while a word remains.
C23_Witness ==
  /\ layoutPc = "loop"
  /\ direction = 3
  /\ result = <<"   dddd    ", "--------   ", "    >>> | a">>
  /\ words = <<"a">>

(* --------------------------- the block's shape ------------------------ *)

\* C33: while spiral is in its loop, that is after the marker line was set up
\* and after every growth phase, before the snail head is appended, all lines
\* of the block have the same length.
C33_BlockStaysRectangular ==
  layoutPc = "loop" => EqualLengths(result)

\* A five-line block after a TOP phase put a row below it.
C33_Witness ==
  /\ layoutPc = "loop"
  /\ direction = 1
  /\ Len(result) = 5
  /\ EqualLengths(result)

(* ------------------------------ termination --------------------------- *)

\* An iteration of the loop of spiral, whatever it did to the block.
LoopIteration == layoutPc = "loop" /\ direction' # direction

\* The iterations made so far, read off the block: every row phase added two
\* lines, and direction tells whether a row phase was the latest.
PhasesRun ==
  IF direction \in {1, 3} THEN Len(result) - 2 ELSE Len(result) - 1

\* C34: every iteration of the loop of spiral takes at least one word from
\* the list, so the iterations made and the words left never exceed the
\* number of words less one; with no word left the only step is the return,
\* and the call returns with the list empty.
C34_SpiralTerminates ==
  /\ [][LoopIteration => Taken >= 1]_vars
  /\ [][(layoutPc = "loop" /\ Len(words) = 0) => layoutPc' = "returned"]_vars
  /\ [](layoutPc = "loop" =>
          PhasesRun + Len(words) <= Len(ParseWords(input.value)) - 1)
  /\ [](Returned => words = <<>>)

\* A call on a list of MaxWords words has returned after a full cycle of
\* four phases.
C34_Witness ==
  /\ Returned
  /\ Len(ParseWords(input.value)) = MaxWords
  /\ words = <<>>
  /\ Len(result) = 7
  /\ direction = 2

\* The monitoring loop that made the latest run of checkJobStatus is still
\* scheduled.
StillScheduled ==
  \E m \in monitors : m.jobId = checked.jobId /\ m.attempts = checked.attempts

\* C35: a monitoring loop runs checkJobStatus at most maxAttempts times: a
\* scheduled loop has fewer than maxAttempts runs behind it, and no run is
\* scheduled after a run that observed completed or failed, that met an error
\* other than a network error, or that was the last attempt.
C35_MonitoringEnds ==
  /\ \A m \in monitors : m.attempts < maxAttempts
  /\ checked.attempts <= maxAttempts
  /\ StillScheduled =>
       /\ checked.outcome \in {"pending", "processing", "error 0"}
       /\ checked.attempts < maxAttempts

\* A loop stopped at its last attempt, which met a network error, after a
\* first attempt that was rescheduled.
C35_Witness ==
  /\ checked.outcome = "error 0"
  /\ checked.attempts = maxAttempts
  /\ ~StillScheduled
  /\ page.status = "failed"
  /\ storage = EmptyStorage

\* A run of checkJobStatus of monitoring loop m: the loop leaves its place in
\* monitors while the page stays loaded.
RunOf(m) == m \in monitors /\ m \notin monitors' /\ reloads' = reloads

\* C36: a run of the monitoring loop of one job leaves the stored id and
\* timestamp of another job of the page as they are.
C36_OwnJobOnly ==
  [][\A m \in Monitors :
       (RunOf(m) /\ Stored /\ storage.jobId # m.jobId) => storage' = storage]_vars

\* The processor of the running process is stopped: no timer is live.
Stopped == proc = "running" /\ timers = 0

\* stop() clears a timer of the process, which goes on running.
StopStep == proc' = proc /\ timers' < timers

\* A record goes from pending to processing.
PendingToProcessing ==
  \E j \in JobIds : db[j].status = "pending" /\ db'[j].status = "processing"

\* A processNextJob invocation passes the guard and issues its query.
InvocationBegins ==
  \E s \in Calls : call[s].pc = "idle" /\ call'[s].pc # "idle"

\* The render of job j is in flight.
Rendering(j) == \E s \in Calls : call[s].pc = "render" /\ call[s].doc.jobId = j

\* start() never leaves two timers live, stop() leaves the invocation in
\* flight and the records as they are, and the outcome of a render in
\* flight is recorded.
StartStopKeepsOneRun ==
  /\ [](timers <= 1)
  /\ [][StopStep => UNCHANGED <<db, call, isProcessing>>]_vars
  /\ \A j \in 1..MaxJobs :
       Rendering(j) ~> (j \in JobIds /\ db[j].status \in Terminal)

\* C37 as stated: a second start() sets no second timer; while the processor
\* is stopped no record goes from pending to processing; the outcome of a
\* render in flight at stop() is recorded.
C37_NoMoveAfterStop ==
  /\ StartStopKeepsOneRun
  /\ [][(Stopped /\ Stopped') => ~PendingToProcessing]_vars

\* C37: a second start() sets no second timer; while the processor is stopped
\* no processNextJob invocation begins, so only the invocation in flight at
\* stop() can still move the record it found to processing; the outcome of a
\* render in flight at stop() is recorded.
C37_NoInvocationAfterStop ==
  /\ StartStopKeepsOneRun
  /\ [][(Stopped /\ Stopped') => ~InvocationBegins]_vars
  /\ [][(Stopped /\ PendingToProcessing) =>
          \E s \in Calls : call[s].pc = "update_processing"]_vars

\* The processor is stopped with a render in flight and a later record
\* waiting in pending.
C37_Witness ==
  /\ Stopped
  /\ intervalId = Null
  /\ \E j \in JobIds : Rendering(j)
  /\ \E j \in JobIds : db[j].status = "pending"

\* C38: a normalizer applied to the value it has returned returns that value.
C38_Idempotent == normCalls = 2 => normResult = normArg

====
